---- MODULE Spec2Model ----
(***************************************************************************)
(* SubscriptionSensei: the month-by-month subscription optimizer of        *)
(* src/src/lib/optimizer.ts (the version built on getActivePriorityBucket  *)
(* and selectItemsWithinBudget, lines 947-1748).                           *)
(*                                                                         *)
(* Money is kept in cents (7.99 -> 799), time in minutes.  A watchlist     *)
(* entry is identified by its position in the watchlist (the code keys     *)
(* its Map by item.id, which the input form keeps unique).  An absent      *)
(* optional field is "" (strings) or 0 (numbers), which are exactly the    *)
(* values JavaScript treats as falsy in the code's tests.                  *)
(***************************************************************************)
EXTENDS Integers, Sequences, FiniteSets, TLC

(***************************************************************************)
(* Constants of the program                                                *)
(***************************************************************************)
DAILY_WATCH_HOURS == 2

DAYS_IN_MONTH == 30

\* A faulty variant of MONTHLY_WATCH_LIMIT: the hours per day are left out
MONTHLY_WATCH_LIMIT_OneHourADay == DAYS_IN_MONTH

MONTHLY_WATCH_LIMIT == DAILY_WATCH_HOURS * DAYS_IN_MONTH

PLATFORM_PRICES ==
  [p \in {"netflix", "disney", "hulu", "disney_hulu_bundle", "hbo", "amazon",
          "paramount", "peacock", "apple"} |->
     CASE p = "netflix" -> 799
       [] p = "disney" -> 999
       [] p = "hulu" -> 999
       [] p = "disney_hulu_bundle" -> 1099
       [] p = "hbo" -> 1099
       [] p = "amazon" -> 899
       [] p = "paramount" -> 799
       [] p = "peacock" -> 899
       [] p = "apple" -> 1299]

STREAMING_SERVICES ==
  [p \in {"netflix", "disney", "hulu", "amazon", "hbo", "apple", "paramount",
          "peacock"} |->
     CASE p = "netflix" -> 799
       [] p = "disney" -> 999
       [] p = "hulu" -> 999
       [] p = "amazon" -> 899
       [] p = "hbo" -> 1099
       [] p = "apple" -> 1299
       [] p = "paramount" -> 799
       [] p = "peacock" -> 899]

\* A faulty variant of PRIORITY_ORDER: the tiers are walked from the lowest
PRIORITY_ORDER_Reversed == <<"low", "medium", "high">>

PRIORITY_ORDER == <<"high", "medium", "low">>

(***************************************************************************)
(* Small arithmetic and sequence helpers                                   *)
(***************************************************************************)
Min(a, b) == IF a <= b THEN a ELSE b

\* Math.ceil(a / b) for a >= 0, b > 0
Ceil(a, b) == (a + b - 1) \div b

Ids(wl) == [i \in 1..Len(wl) |-> i]

Range(s) == {s[k] : k \in 1..Len(s)}

RECURSIVE SumSeq(_)
SumSeq(s) == IF s = <<>> THEN 0 ELSE Head(s) + SumSeq(Tail(s))

\* Array.prototype.indexOf on PRIORITY_ORDER (0-based, -1 when absent)
PriorityIndex(p) ==
  IF \E k \in 1..Len(PRIORITY_ORDER) : PRIORITY_ORDER[k] = p
  THEN (CHOOSE k \in 1..Len(PRIORITY_ORDER) : PRIORITY_ORDER[k] = p) - 1
  ELSE -1

\* item.priority || "low"
PriorityOf(item) == IF item.priority = "" THEN "low" ELSE item.priority

(***************************************************************************)
(* Helper functions of the optimizer                                       *)
(***************************************************************************)
getRealWatchTimeMinutes(item) ==
  IF item.totalWatchTimeMinutes # 0 THEN item.totalWatchTimeMinutes
  ELSE IF item.type = "movie" THEN 120
  ELSE (IF item.episodeCount # 0 THEN item.episodeCount ELSE 10) * 45

getPlatformPrice(serviceId) ==
  IF serviceId \in DOMAIN PLATFORM_PRICES THEN PLATFORM_PRICES[serviceId]
  ELSE IF serviceId \in DOMAIN STREAMING_SERVICES THEN STREAMING_SERVICES[serviceId]
  ELSE 999

\* A faulty variant of getEffectiveProviders: the override is added to the list
getEffectiveProvidersUnion(item) ==
  IF item.userSelectedProvider # "" THEN <<item.userSelectedProvider>> \o item.providers
  ELSE item.providers

getEffectiveProviders(item) ==
  IF item.userSelectedProvider # "" THEN <<item.userSelectedProvider>>
  ELSE item.providers

\* A faulty variant of shouldScheduleItem: the defer flag is not looked at
shouldScheduleItemIgnoringPending(item) ==
  IF Len(item.providers) = 0 /\ item.userSelectedProvider = "" THEN FALSE
  ELSE TRUE

shouldScheduleItem(item) ==
  IF item.pendingPlatformSelection THEN FALSE
  ELSE IF Len(item.providers) = 0 /\ item.userSelectedProvider = "" THEN FALSE
  ELSE TRUE

\* A faulty variant of initializeContentState: high priority doubles the time to watch
initializeContentStateWeighted(wl) ==
  [i \in 1..Len(wl) |->
     [realMinutes |-> getRealWatchTimeMinutes(wl[i]),
      remainingMinutes |-> getRealWatchTimeMinutes(wl[i])
                             * (IF wl[i].priority = "high" THEN 2 ELSE 1)]]

initializeContentState(wl) ==
  [i \in 1..Len(wl) |->
     [realMinutes |-> getRealWatchTimeMinutes(wl[i]),
      remainingMinutes |-> getRealWatchTimeMinutes(wl[i])]]

(***************************************************************************)
(* STEP A: the active priority bucket.  NoBucket stands for null.          *)
(***************************************************************************)
NoBucket == [priority |-> "", items |-> <<>>]

\* A faulty variant of BucketItems: finished entries are not filtered out
BucketItemsWithFinished(wl, cs, priority) ==
  SelectSeq(Ids(wl), LAMBDA i :
    /\ shouldScheduleItem(wl[i])
    /\ PriorityOf(wl[i]) = priority)

BucketItems(wl, cs, priority) ==
  SelectSeq(Ids(wl), LAMBDA i :
    /\ shouldScheduleItem(wl[i])
    /\ PriorityOf(wl[i]) = priority
    /\ cs[i].remainingMinutes > 0)

RECURSIVE FirstBucket(_, _, _)
FirstBucket(wl, cs, prios) ==
  IF prios = <<>> THEN NoBucket
  ELSE IF Len(BucketItems(wl, cs, Head(prios))) > 0
       THEN [priority |-> Head(prios), items |-> BucketItems(wl, cs, Head(prios))]
       ELSE FirstBucket(wl, cs, Tail(prios))

getActivePriorityBucket(wl, cs) == FirstBucket(wl, cs, PRIORITY_ORDER)

(***************************************************************************)
(* STEP B: platform selection under the budget                             *)
(***************************************************************************)
\* The loop of getCheapestProvider: the first provider of strictly minimal price.
RECURSIVE CheapestFrom(_, _)
CheapestFrom(providers, best) ==
  IF providers = <<>> THEN best
  ELSE IF getPlatformPrice(Head(providers)) < getPlatformPrice(best)
       THEN CheapestFrom(Tail(providers), Head(providers))
       ELSE CheapestFrom(Tail(providers), best)

\* "" stands for null (no effective provider)
getCheapestProvider(item) ==
  IF Len(getEffectiveProviders(item)) = 0 THEN ""
  ELSE CheapestFrom(getEffectiveProviders(item), Head(getEffectiveProviders(item)))

RECURSIVE calculatePlatformsCost(_)
calculatePlatformsCost(platformIds) ==
  IF platformIds = <<>> THEN 0
  ELSE getPlatformPrice(Head(platformIds)) + calculatePlatformsCost(Tail(platformIds))

\* A faulty variant of FitsBudget: the budget is never consulted
FitsBudgetAlways(cost, budget) == TRUE

\* The budget comparison: currentCost + cost <= budget (selectItemsWithinBudget),
\* totalCost + cheapest.cost <= budget (lower-priority additions) and the
\* negation of monthlyCost > budget (the loop's checkpoint).
FitsBudget(cost, budget) == cost <= budget

\* Keys of itemsByPlatform in insertion order (a Map keeps a key once)
RECURSIVE PlatformKeys(_, _, _)
PlatformKeys(wl, items, acc) ==
  IF items = <<>> THEN acc
  ELSE IF getCheapestProvider(wl[Head(items)]) = ""
          \/ getCheapestProvider(wl[Head(items)]) \in Range(acc)
       THEN PlatformKeys(wl, Tail(items), acc)
       ELSE PlatformKeys(wl, Tail(items), Append(acc, getCheapestProvider(wl[Head(items)])))

\* Array.prototype.sort((a, b) => a.cost - b.cost): stable insertion by cost
RECURSIVE InsertByCost(_, _)
InsertByCost(sorted, p) ==
  IF sorted = <<>> THEN <<p>>
  ELSE IF getPlatformPrice(p) < getPlatformPrice(Head(sorted))
       THEN <<p>> \o sorted
       ELSE <<Head(sorted)>> \o InsertByCost(Tail(sorted), p)

RECURSIVE SortByCost(_, _)
SortByCost(ps, acc) ==
  IF ps = <<>> THEN acc ELSE SortByCost(Tail(ps), InsertByCost(acc, Head(ps)))

\* The greedy loop of selectItemsWithinBudget over the sorted platform groups
RECURSIVE GreedySelect(_, _, _, _, _)
GreedySelect(wl, items, platforms, budget, acc) ==
  IF platforms = <<>> THEN acc
  ELSE LET p == Head(platforms)
           cost == getPlatformPrice(p)
           platformItems == SelectSeq(items, LAMBDA i : getCheapestProvider(wl[i]) = p)
       IN IF FitsBudget(acc.currentCost + cost, budget)
          THEN GreedySelect(wl, items, Tail(platforms), budget,
                 [acc EXCEPT !.currentCost = @ + cost,
                             !.selectedItems = @ \o platformItems])
          ELSE GreedySelect(wl, items, Tail(platforms), budget,
                 [acc EXCEPT !.deferredItems = @ \o platformItems])

selectItemsWithinBudget(wl, items, budget) ==
  GreedySelect(wl, items, SortByCost(PlatformKeys(wl, items, <<>>), <<>>), budget,
               [currentCost |-> 0, selectedItems |-> <<>>, deferredItems |-> <<>>])

\* Platforms of the selected active-bucket items, in insertion order (a Set
\* keeps an element once)
RECURSIVE CheapestOf(_, _, _)
CheapestOf(wl, items, acc) ==
  IF items = <<>> THEN acc
  ELSE IF getCheapestProvider(wl[Head(items)]) = ""
          \/ getCheapestProvider(wl[Head(items)]) \in Range(acc)
       THEN CheapestOf(wl, Tail(items), acc)
       ELSE CheapestOf(wl, Tail(items), Append(acc, getCheapestProvider(wl[Head(items)])))

lowerPriorityItems(wl, cs, activeBucket) ==
  SelectSeq(Ids(wl), LAMBDA i :
    /\ shouldScheduleItem(wl[i])
    /\ PriorityIndex(PriorityOf(wl[i])) > PriorityIndex(activeBucket.priority)
    /\ cs[i].remainingMinutes > 0)

\* A faulty variant of AddLowerPriority: any affordable platform is added for a
\* lower-priority item, used the month before or not
RECURSIVE AddLowerPriorityAnyPlatform(_, _, _, _, _)
AddLowerPriorityAnyPlatform(wl, items, budget, previousPlatforms, acc) ==
  IF items = <<>> THEN acc
  ELSE LET i == Head(items)
           cheapest == getCheapestProvider(wl[i])
       IN IF cheapest = ""
          THEN AddLowerPriorityAnyPlatform(wl, Tail(items), budget, previousPlatforms, acc)
          ELSE IF cheapest \in Range(acc.selectedPlatformIds)
          THEN AddLowerPriorityAnyPlatform(wl, Tail(items), budget, previousPlatforms,
                 [acc EXCEPT !.selectedItems = Append(@, i)])
          ELSE IF FitsBudget(acc.totalCost + getPlatformPrice(cheapest), budget)
          THEN AddLowerPriorityAnyPlatform(wl, Tail(items), budget, previousPlatforms,
                 [selectedPlatformIds |-> Append(acc.selectedPlatformIds, cheapest),
                  totalCost |-> acc.totalCost + getPlatformPrice(cheapest),
                  selectedItems |-> Append(acc.selectedItems, i)])
          ELSE AddLowerPriorityAnyPlatform(wl, Tail(items), budget, previousPlatforms, acc)

\* The loop over lowerPriorityItems: a lower-priority item rides on a platform
\* already selected, or brings its cheapest platform when that fits the budget
\* and was used in the previous month.
RECURSIVE AddLowerPriority(_, _, _, _, _)
AddLowerPriority(wl, items, budget, previousPlatforms, acc) ==
  IF items = <<>> THEN acc
  ELSE LET i == Head(items)
           cheapest == getCheapestProvider(wl[i])
       IN IF cheapest = "" THEN AddLowerPriority(wl, Tail(items), budget, previousPlatforms, acc)
          ELSE IF cheapest \in Range(acc.selectedPlatformIds)
          THEN AddLowerPriority(wl, Tail(items), budget, previousPlatforms,
                 [acc EXCEPT !.selectedItems = Append(@, i)])
          ELSE IF FitsBudget(acc.totalCost + getPlatformPrice(cheapest), budget)
                  /\ cheapest \in previousPlatforms
          THEN AddLowerPriority(wl, Tail(items), budget, previousPlatforms,
                 [selectedPlatformIds |-> Append(acc.selectedPlatformIds, cheapest),
                  totalCost |-> acc.totalCost + getPlatformPrice(cheapest),
                  selectedItems |-> Append(acc.selectedItems, i)])
          ELSE AddLowerPriority(wl, Tail(items), budget, previousPlatforms, acc)

\* One OptimizedService; watchTime is kept in minutes (the code divides by 60)
BuildService(wl, cs, selectedItems, serviceId) ==
  LET coveredItems == SelectSeq(selectedItems, LAMBDA i : getCheapestProvider(wl[i]) = serviceId)
      totalWatchMinutes == SumSeq([k \in 1..Len(coveredItems) |-> cs[coveredItems[k]].remainingMinutes])
  IN [service |-> serviceId,
      cost |-> getPlatformPrice(serviceId),
      itemsToWatch |-> coveredItems,
      watchTime |-> Min(totalWatchMinutes, MONTHLY_WATCH_LIMIT * 60)]

\* Array.prototype.sort((a, b) => b.itemsToWatch.length - a.itemsToWatch.length)
RECURSIVE InsertByItems(_, _)
InsertByItems(sorted, svc) ==
  IF sorted = <<>> THEN <<svc>>
  ELSE IF Len(svc.itemsToWatch) > Len(Head(sorted).itemsToWatch)
       THEN <<svc>> \o sorted
       ELSE <<Head(sorted)>> \o InsertByItems(Tail(sorted), svc)

RECURSIVE SortByItems(_, _)
SortByItems(svcs, acc) ==
  IF svcs = <<>> THEN acc ELSE SortByItems(Tail(svcs), InsertByItems(acc, Head(svcs)))

\* The selection before the lower-priority additions
InitialSelection(selectedPlatformIds, selectedItems) ==
  [selectedPlatformIds |-> selectedPlatformIds,
   totalCost |-> calculatePlatformsCost(selectedPlatformIds),
   selectedItems |-> selectedItems]

\* The OptimizedService array, sorted, and the items to schedule
BuildPlatforms(wl, cs, final) ==
  [platforms |-> SortByItems([k \in 1..Len(final.selectedPlatformIds) |->
                    BuildService(wl, cs, final.selectedItems, final.selectedPlatformIds[k])],
                  <<>>),
   itemsToSchedule |-> final.selectedItems]

\* selectPlatformsForMonth once the active items within budget are known
SelectAround(activeBucket, wl, cs, budget, previousPlatforms, selectedItems) ==
  BuildPlatforms(wl, cs,
    AddLowerPriority(wl, lowerPriorityItems(wl, cs, activeBucket), budget, previousPlatforms,
      InitialSelection(CheapestOf(wl, selectedItems, <<>>), selectedItems)))

selectPlatformsForMonth(activeBucket, wl, cs, budget, previousPlatforms) ==
  SelectAround(activeBucket, wl, cs, budget, previousPlatforms,
    selectItemsWithinBudget(wl,
      SelectSeq(activeBucket.items, LAMBDA i : cs[i].remainingMinutes > 0),
      budget).selectedItems)

(***************************************************************************)
(* STEP C & D: fair scheduling of one month.  The scheduler's running      *)
(* state is [cs, cap, day, items]: the content state, the monthly          *)
(* capacity left (remainingCapacityMinutes), currentDay and scheduledItems.*)
(* A ScheduledItem keeps the item's id, its start day (day), its end day   *)
(* (the day of estimatedEndDate), the minutes watched (watchHours * 60)    *)
(* and remainingMinutes.                                                   *)
(***************************************************************************)

\* A faulty variant of candidateItems: the month's platforms are not consulted
candidateItemsAnyPlatform(platformIds, cs, wl) ==
  SelectSeq(Ids(wl), LAMBDA i :
    /\ shouldScheduleItem(wl[i])
    /\ cs[i].remainingMinutes > 0)

candidateItems(platformIds, cs, wl) ==
  SelectSeq(Ids(wl), LAMBDA i :
    /\ shouldScheduleItem(wl[i])
    /\ cs[i].remainingMinutes > 0
    /\ \E k \in 1..Len(getEffectiveProviders(wl[i])) :
         getEffectiveProviders(wl[i])[k] \in platformIds)

\* A faulty variant of ScheduleMovies: a movie that does not fit is watched in part
RECURSIVE ScheduleMoviesSplit(_, _)
ScheduleMoviesSplit(movies, s) ==
  IF movies = <<>> \/ s.cap <= 0 THEN s
  ELSE LET i == Head(movies)
           movieMinutes == Min(s.cs[i].remainingMinutes, s.cap)
       IN ScheduleMoviesSplit(Tail(movies),
            [cs |-> [s.cs EXCEPT ![i].remainingMinutes = @ - movieMinutes],
             cap |-> s.cap - movieMinutes,
             day |-> s.day + 1,
             items |-> Append(s.items,
                         [id |-> i, day |-> s.day, endDay |-> s.day,
                          watchMinutes |-> movieMinutes,
                          remainingMinutes |-> s.cs[i].remainingMinutes - movieMinutes])])

\* A faulty variant of ScheduleMovies: the first movie that does not fit ends the loop
RECURSIVE ScheduleMoviesUntilMisfit(_, _)
ScheduleMoviesUntilMisfit(movies, s) ==
  IF movies = <<>> \/ s.cap <= 0 THEN s
  ELSE LET i == Head(movies)
           movieMinutes == s.cs[i].remainingMinutes
       IN IF movieMinutes <= s.cap
          THEN ScheduleMoviesUntilMisfit(Tail(movies),
                 [cs |-> [s.cs EXCEPT ![i].remainingMinutes = 0],
                  cap |-> s.cap - movieMinutes,
                  day |-> s.day + 1,
                  items |-> Append(s.items,
                              [id |-> i, day |-> s.day, endDay |-> s.day,
                               watchMinutes |-> movieMinutes, remainingMinutes |-> 0])])
          ELSE s

\* STEP D: movies first, each in one sitting, only when it fits entirely
RECURSIVE ScheduleMovies(_, _)
ScheduleMovies(movies, s) ==
  IF movies = <<>> \/ s.cap <= 0 THEN s
  ELSE LET i == Head(movies)
           movieMinutes == s.cs[i].remainingMinutes
       IN IF movieMinutes <= s.cap
          THEN ScheduleMovies(Tail(movies),
                 [cs |-> [s.cs EXCEPT ![i].remainingMinutes = 0],
                  cap |-> s.cap - movieMinutes,
                  day |-> s.day + 1,
                  items |-> Append(s.items,
                              [id |-> i, day |-> s.day, endDay |-> s.day,
                               watchMinutes |-> movieMinutes, remainingMinutes |-> 0])])
          ELSE ScheduleMovies(Tail(movies), s)

\* A faulty variant of FirstPass: a series that needs less than its share returns
\* the whole share as surplus
FirstPassWholeShare(activeSeries, cs, equalShareMinutes) ==
  [alloc |-> [i \in Range(activeSeries) |-> Min(cs[i].remainingMinutes, equalShareMinutes)],
   surplus |-> SumSeq([k \in 1..Len(activeSeries) |->
                 IF cs[activeSeries[k]].remainingMinutes < equalShareMinutes
                 THEN equalShareMinutes
                 ELSE 0])]

\* First pass: equal shares, and the surplus of the series that need less
FirstPass(activeSeries, cs, equalShareMinutes) ==
  [alloc |-> [i \in Range(activeSeries) |-> Min(cs[i].remainingMinutes, equalShareMinutes)],
   surplus |-> SumSeq([k \in 1..Len(activeSeries) |->
                 IF cs[activeSeries[k]].remainingMinutes < equalShareMinutes
                 THEN equalShareMinutes - cs[activeSeries[k]].remainingMinutes
                 ELSE 0])]

\* The remainder loop: one minute at a time while surplus is left
RECURSIVE OneMinuteEach(_, _, _)
OneMinuteEach(needsMore, cs, a) ==
  IF needsMore = <<>> \/ a.surplus <= 0 THEN a
  ELSE LET i == Head(needsMore)
       IN IF cs[i].remainingMinutes - a.alloc[i] > 0
          THEN OneMinuteEach(Tail(needsMore), cs,
                 [a EXCEPT !.alloc[i] = @ + 1, !.surplus = @ - 1])
          ELSE OneMinuteEach(Tail(needsMore), cs, a)

\* A faulty variant of GiveExtra: the extra minutes are not capped by what the
\* series still needs
RECURSIVE GiveExtraUncapped(_, _, _, _)
GiveExtraUncapped(needsMore, cs, extraPerItem, a) ==
  IF needsMore = <<>> THEN a
  ELSE LET i == Head(needsMore)
           canUse == extraPerItem
       IN IF canUse > 0
          THEN GiveExtraUncapped(Tail(needsMore), cs, extraPerItem,
                 [a EXCEPT !.alloc[i] = @ + canUse, !.surplus = @ - canUse])
          ELSE GiveExtraUncapped(Tail(needsMore), cs, extraPerItem, a)

\* One pass of extraPerItem over needsMore; surplus is reduced by what was taken
RECURSIVE GiveExtra(_, _, _, _)
GiveExtra(needsMore, cs, extraPerItem, a) ==
  IF needsMore = <<>> THEN a
  ELSE LET i == Head(needsMore)
           canUse == Min(extraPerItem, cs[i].remainingMinutes - a.alloc[i])
       IN IF canUse > 0
          THEN GiveExtra(Tail(needsMore), cs, extraPerItem,
                 [a EXCEPT !.alloc[i] = @ + canUse, !.surplus = @ - canUse])
          ELSE GiveExtra(Tail(needsMore), cs, extraPerItem, a)

\* A faulty variant of NeedsMore: the list is never narrowed to the series
\* that can still absorb minutes
NeedsMoreAll(activeSeries, cs, alloc) == activeSeries

NeedsMore(activeSeries, cs, alloc) ==
  SelectSeq(activeSeries, LAMBDA i : cs[i].remainingMinutes > alloc[i])

\* A faulty variant of Redistribute: the whole surplus goes to the first series
\* that needs more
RedistributeToFirst(activeSeries, cs, needsMore, a) ==
  IF ~(a.surplus > 0 /\ Len(needsMore) > 0) THEN a
  ELSE GiveExtra(<<Head(needsMore)>>, cs, a.surplus, a)

\* Second pass: the while loop that redistributes the surplus; a.iterations
\* counts the times its body is entered
RECURSIVE Redistribute(_, _, _, _), AfterExtra(_, _, _, _)
Redistribute(activeSeries, cs, needsMore, a) ==
  IF ~(a.surplus > 0 /\ Len(needsMore) > 0) THEN a
  ELSE LET extraPerItem == a.surplus \div Len(needsMore)
           entered == [a EXCEPT !.iterations = @ + 1]
       IN IF extraPerItem = 0 THEN OneMinuteEach(needsMore, cs, entered)
          ELSE AfterExtra(activeSeries, cs, entered,
                          GiveExtra(needsMore, cs, extraPerItem, entered))

\* The end of one iteration: stop when nothing was redistributed, else go on
\* with the series that still need more
AfterExtra(activeSeries, cs, a, b) ==
  IF b.surplus = a.surplus THEN b
  ELSE Redistribute(activeSeries, cs, NeedsMore(activeSeries, cs, b.alloc), b)

\* The allocations, the surplus and the iteration count when the second pass,
\* entered only with a surplus, is over
RedistributionOf(activeSeries, cs, first) ==
  IF first.surplus > 0
  THEN Redistribute(activeSeries, cs, NeedsMore(activeSeries, cs, first.alloc),
                    [alloc |-> first.alloc, surplus |-> first.surplus, iterations |-> 0])
  ELSE [alloc |-> first.alloc, surplus |-> first.surplus, iterations |-> 0]

SecondPass(activeSeries, cs, first) == RedistributionOf(activeSeries, cs, first).alloc

\* The allocation of one tier's series out of the capacity left after its movies
AllocateSeries(activeSeries, cs, cap) ==
  SecondPass(activeSeries, cs, FirstPass(activeSeries, cs, cap \div Len(activeSeries)))

\* Schedule series with their allocated time: all of a tier start on startDay
RECURSIVE ScheduleSeries(_, _, _, _)
ScheduleSeries(activeSeries, alloc, startDay, s) ==
  IF activeSeries = <<>> THEN s
  ELSE LET i == Head(activeSeries)
           allocatedMinutes == alloc[i]
           daysNeeded == Ceil(allocatedMinutes, DAILY_WATCH_HOURS * 60)
           endDay == Min(startDay + daysNeeded - 1, DAYS_IN_MONTH)
           newRemaining == s.cs[i].remainingMinutes - allocatedMinutes
       IN IF allocatedMinutes <= 0 THEN ScheduleSeries(Tail(activeSeries), alloc, startDay, s)
          ELSE ScheduleSeries(Tail(activeSeries), alloc, startDay,
                 [cs |-> [s.cs EXCEPT ![i].remainingMinutes = newRemaining],
                  cap |-> s.cap - allocatedMinutes,
                  day |-> s.day,
                  items |-> Append(s.items,
                              [id |-> i, day |-> startDay, endDay |-> endDay,
                               watchMinutes |-> allocatedMinutes,
                               remainingMinutes |-> newRemaining])])

\* The loop over PRIORITY_ORDER
RECURSIVE ProcessBuckets(_, _, _, _), SeriesOfBucket(_, _, _, _, _)
ProcessBuckets(prios, candidates, wl, s) ==
  IF prios = <<>> THEN s
  ELSE LET bucket == SelectSeq(candidates, LAMBDA i : PriorityOf(wl[i]) = Head(prios))
       IN IF Len(bucket) = 0 THEN ProcessBuckets(Tail(prios), candidates, wl, s)
          ELSE IF s.cap <= 0 THEN s
          ELSE SeriesOfBucket(prios, candidates, wl,
                 SelectSeq(bucket, LAMBDA i :
                   wl[i].type # "movie" /\ s.cs[i].remainingMinutes > 0),
                 ScheduleMovies(
                   SelectSeq(bucket, LAMBDA i :
                     wl[i].type = "movie" /\ s.cs[i].remainingMinutes > 0),
                   s))

\* STEP C of one bucket, from the state s1 its movies left, and the next buckets
SeriesOfBucket(prios, candidates, wl, series, s1) ==
  LET activeSeries == SelectSeq(series, LAMBDA i : s1.cs[i].remainingMinutes > 0)
  IN IF Len(activeSeries) = 0 \/ s1.cap <= 0
     THEN ProcessBuckets(Tail(prios), candidates, wl, s1)
     ELSE ProcessBuckets(Tail(prios), candidates, wl,
            [ScheduleSeries(activeSeries, AllocateSeries(activeSeries, s1.cs, s1.cap),
                            s1.day, s1)
               EXCEPT !.day = Min(s1.day + Ceil(Len(activeSeries), 2), DAYS_IN_MONTH)])

\* What scheduleContentForMonth returns, from the scheduler's last state
ScheduleResult(s) ==
  [scheduledItems |-> s.items,
   totalWatchedMinutes |-> MONTHLY_WATCH_LIMIT * 60 - s.cap,
   contentState |-> s.cs]

scheduleContentForMonth(selectedPlatforms, cs, wl) ==
  ScheduleResult(
    ProcessBuckets(PRIORITY_ORDER,
      candidateItems({selectedPlatforms[k].service : k \in 1..Len(selectedPlatforms)}, cs, wl),
      wl,
      [cs |-> cs, cap |-> MONTHLY_WATCH_LIMIT * 60, day |-> 1, items |-> <<>>]))

(***************************************************************************)
(* MAIN OPTIMIZATION FUNCTION                                              *)
(*                                                                         *)
(* The loop state is [contentState, rotationSchedule, monthOffset,         *)
(* previousPlatforms].  currentMonth is the month of the call              *)
(* (Date.getMonth()); a plan's year is counted from the year of the call.  *)
(***************************************************************************)
totalRealMinutes(wl) ==
  SumSeq([i \in 1..Len(wl) |->
            IF shouldScheduleItem(wl[i]) THEN getRealWatchTimeMinutes(wl[i]) ELSE 0])

\* A faulty variant of M_max: one more month of buffer
M_max_Buffer4(wl) == Ceil(totalRealMinutes(wl), MONTHLY_WATCH_LIMIT * 60) + 4

M_max(wl) == Ceil(totalRealMinutes(wl), MONTHLY_WATCH_LIMIT * 60) + 3

\* A faulty variant of HorizonMonths: the hard cap is one year
HorizonMonthsOneYear(wl) == Min(M_max(wl), 12)

HorizonMonths(wl) == Min(M_max(wl), 24)

InitialLoopState(wl) ==
  [contentState |-> initializeContentState(wl),
   rotationSchedule |-> <<>>,
   monthOffset |-> 0,
   previousPlatforms |-> {}]

\* STEP A and STEP B of one iteration
SelectedForMonth(wl, b, st) ==
  selectPlatformsForMonth(getActivePriorityBucket(wl, st.contentState), wl,
                          st.contentState, b, st.previousPlatforms).platforms

MonthlyCostOf(selectedPlatforms) ==
  SumSeq([k \in 1..Len(selectedPlatforms) |-> selectedPlatforms[k].cost])

\* A faulty variant of PlatformsAccepted: an empty selection does not end the loop
PlatformsAcceptedWhenEmpty(selectedPlatforms, b) ==
  FitsBudget(MonthlyCostOf(selectedPlatforms), b)

\* The while condition and the three breaks of the loop body
PlatformsAccepted(selectedPlatforms, b) ==
  /\ Len(selectedPlatforms) # 0
  /\ FitsBudget(MonthlyCostOf(selectedPlatforms), b)

LoopContinues(wl, b, st) ==
  /\ st.monthOffset < HorizonMonths(wl)
  /\ getActivePriorityBucket(wl, st.contentState) # NoBucket
  /\ PlatformsAccepted(SelectedForMonth(wl, b, st), b)

ServiceIds(services) == {services[k].service : k \in 1..Len(services)}

\* A faulty variant of ActionOf: the previous month's platforms are not looked up
\* in the current selection
ActionOfSelectedOnly(st, selectedPlatforms) ==
  IF st.monthOffset > 0
  THEN LET previousServices == st.rotationSchedule[st.monthOffset].services
       IN IF \A k \in 1..Len(selectedPlatforms) :
               selectedPlatforms[k].service \in ServiceIds(previousServices)
          THEN "keep" ELSE "rotate"
  ELSE "subscribe"

ActionOf(st, selectedPlatforms) ==
  IF st.monthOffset > 0
  THEN LET previousServices == st.rotationSchedule[st.monthOffset].services
           sameServices ==
             /\ \A k \in 1..Len(selectedPlatforms) :
                  selectedPlatforms[k].service \in ServiceIds(previousServices)
             /\ \A k \in 1..Len(previousServices) :
                  previousServices[k].service \in ServiceIds(selectedPlatforms)
       IN IF sameServices THEN "keep" ELSE "rotate"
  ELSE "subscribe"

\* A faulty variant of monthIdx: the month index is not wrapped at the year's end
monthIdxUnwrapped(cm, monthOffset) == cm + monthOffset

\* monthIdx of the iteration; months are 0 (January) .. 11 (December)
monthIdx(cm, monthOffset) == (cm + monthOffset) % 12

\* year of the iteration, counted from the year of the call (currentYear = 0)
yearOf(cm, monthOffset) == (cm + monthOffset) \div 12

\* rotationSchedule.push and the end of the iteration
PushPlan(b, cm, st, selectedPlatforms, monthlyCost, sched) ==
  [contentState |-> sched.contentState,
   rotationSchedule |-> Append(st.rotationSchedule,
      [monthIndex |-> monthIdx(cm, st.monthOffset),
       year |-> yearOf(cm, st.monthOffset),
       services |-> selectedPlatforms,
       itemsToWatch |-> sched.scheduledItems,
       monthlyCost |-> monthlyCost,
       action |-> ActionOf(st, selectedPlatforms),
       totalWatchMinutes |-> sched.totalWatchedMinutes,
       isBudgetConstrained |-> (10 * monthlyCost >= 9 * b)]),
   monthOffset |-> st.monthOffset + 1,
   previousPlatforms |-> ServiceIds(selectedPlatforms)]

\* A faulty variant of MonthWith: the ScheduledItems of earlier plans share the
\* content state, so their remainingMinutes follow the later months
MonthWithSharedState(wl, b, cm, st, selectedPlatforms) ==
  LET next == PushPlan(b, cm, st, selectedPlatforms, MonthlyCostOf(selectedPlatforms),
                       scheduleContentForMonth(selectedPlatforms, st.contentState, wl))
      Shared(items) ==
        [n \in 1..Len(items) |->
           [items[n] EXCEPT !.remainingMinutes = next.contentState[items[n].id].remainingMinutes]]
  IN [next EXCEPT !.rotationSchedule =
        [k \in 1..Len(next.rotationSchedule) |->
           [next.rotationSchedule[k] EXCEPT
              !.itemsToWatch = Shared(next.rotationSchedule[k].itemsToWatch)]]]

\* The iteration from the selected platforms on
MonthWith(wl, b, cm, st, selectedPlatforms) ==
  PushPlan(b, cm, st, selectedPlatforms, MonthlyCostOf(selectedPlatforms),
           scheduleContentForMonth(selectedPlatforms, st.contentState, wl))

\* A faulty variant of MonthBody: in January the platforms of December are forgotten
MonthBodyNewYear(wl, b, cm, st) ==
  MonthWith(wl, b, cm, st,
    SelectedForMonth(wl, b,
      IF monthIdx(cm, st.monthOffset) = 0 THEN [st EXCEPT !.previousPlatforms = {}] ELSE st))

\* One iteration of the loop that reaches rotationSchedule.push
MonthBody(wl, b, cm, st) == MonthWith(wl, b, cm, st, SelectedForMonth(wl, b, st))

\* A faulty variant of DeferredItems: entries already in the list are not skipped
DeferredItemsNotSkipped(wl, cs) ==
  LET pending == SelectSeq(Ids(wl), LAMBDA i : wl[i].pendingPlatformSelection)
      unwatched == SelectSeq(Ids(wl), LAMBDA i : cs[i].remainingMinutes > 0)
  IN [k \in 1..Len(pending) |->
        [id |-> pending[k], reason |-> "Pending platform selection"]]
     \o
     [k \in 1..Len(unwatched) |->
        [id |-> unwatched[k],
         reason |-> IF Len(getEffectiveProviders(wl[unwatched[k]])) = 0
                    THEN "No streaming platform available"
                    ELSE "Could not fit within budget constraints"]]

\* A faulty variant of DeferredItems: the test for an empty platform list is inverted
DeferredItemsReasonsSwapped(wl, cs) ==
  LET pending == SelectSeq(Ids(wl), LAMBDA i : wl[i].pendingPlatformSelection)
      unwatched == SelectSeq(Ids(wl), LAMBDA i :
                     ~wl[i].pendingPlatformSelection /\ cs[i].remainingMinutes > 0)
  IN [k \in 1..Len(pending) |->
        [id |-> pending[k], reason |-> "Pending platform selection"]]
     \o
     [k \in 1..Len(unwatched) |->
        [id |-> unwatched[k],
         reason |-> IF Len(getEffectiveProviders(wl[unwatched[k]])) # 0
                    THEN "No streaming platform available"
                    ELSE "Could not fit within budget constraints"]]

\* Deferred items: the pending ones first, then what is left unwatched
DeferredItems(wl, cs) ==
  LET pending == SelectSeq(Ids(wl), LAMBDA i : wl[i].pendingPlatformSelection)
      unwatched == SelectSeq(Ids(wl), LAMBDA i :
                     ~wl[i].pendingPlatformSelection /\ cs[i].remainingMinutes > 0)
  IN [k \in 1..Len(pending) |->
        [id |-> pending[k], reason |-> "Pending platform selection"]]
     \o
     [k \in 1..Len(unwatched) |->
        [id |-> unwatched[k],
         reason |-> IF Len(getEffectiveProviders(wl[unwatched[k]])) = 0
                    THEN "No streaming platform available"
                    ELSE "Could not fit within budget constraints"]]

\* Math.round((watchedItems / totalItems) * 100)
CoveragePercent(totalItems, deferredCount) ==
  IF totalItems > 0
  THEN (200 * (totalItems - deferredCount) + totalItems) \div (2 * totalItems)
  ELSE 0

allServicesCost ==
  LET RECURSIVE Total(_)
      Total(S) == IF S = {} THEN 0
                  ELSE LET p == CHOOSE q \in S : TRUE
                       IN PLATFORM_PRICES[p] + Total(S \ {p})
  IN Total(DOMAIN PLATFORM_PRICES)

\* The result built after the loop
Aggregate(wl, st) ==
  LET deferred == DeferredItems(wl, st.contentState)
      totalRotationCost == SumSeq([k \in 1..Len(st.rotationSchedule) |->
                                     st.rotationSchedule[k].monthlyCost])
  IN [subscribeThisMonth |-> IF Len(st.rotationSchedule) > 0
                             THEN st.rotationSchedule[1].services ELSE <<>>,
      deferredItems |-> deferred,
      totalCost |-> IF Len(st.rotationSchedule) > 0
                    THEN st.rotationSchedule[1].monthlyCost ELSE 0,
      estimatedSavings |-> allServicesCost * Len(st.rotationSchedule) - totalRotationCost,
      coveragePercent |-> CoveragePercent(Len(wl), Len(deferred)),
      explanation |-> IF Len(st.rotationSchedule) = 0 \/ Len(st.rotationSchedule[1].services) = 0
                      THEN "No platforms selected" ELSE "plan",
      rotationSchedule |-> st.rotationSchedule,
      totalMonthsNeeded |-> Len(st.rotationSchedule)]

RECURSIVE RunLoop(_, _, _, _)
RunLoop(wl, b, cm, st) ==
  IF LoopContinues(wl, b, st) THEN RunLoop(wl, b, cm, MonthBody(wl, b, cm, st)) ELSE st

optimizeSubscriptions(wl, b, cm) == Aggregate(wl, RunLoop(wl, b, cm, InitialLoopState(wl)))

(***************************************************************************)
(* The state machine: one call of optimizeSubscriptions, one step per      *)
(* iteration of its loop, and a last step that builds the result.          *)
(***************************************************************************)
VARIABLES watchlist, budget, currentMonth, contentState, rotationSchedule,
          monthOffset, previousPlatforms, pc, result

vars == <<watchlist, budget, currentMonth, contentState, rotationSchedule,
          monthOffset, previousPlatforms, pc, result>>

LoopState ==
  [contentState |-> contentState, rotationSchedule |-> rotationSchedule,
   monthOffset |-> monthOffset, previousPlatforms |-> previousPlatforms]

NoResult == [totalMonthsNeeded |-> -1]

\* Bound of the model: the longest watchlist
MaxItems == 3

Item(type, priority, providers, user, pending, minutes, episodes) ==
  [type |-> type, priority |-> priority, providers |-> providers,
   userSelectedProvider |-> user, pendingPlatformSelection |-> pending,
   totalWatchTimeMinutes |-> minutes, episodeCount |-> episodes]

\* The entries the watchlists are drawn from
Entries ==
  { Item("tv", "high", <<"netflix">>, "", FALSE, 0, 0),
    Item("tv", "high", <<"hbo">>, "", FALSE, 3700, 0),
    Item("movie", "high", <<"netflix", "paramount">>, "", FALSE, 95, 0),
    Item("movie", "high", <<"hbo">>, "", FALSE, 4000, 0),
    Item("tv", "low", <<"netflix">>, "", FALSE, 3590, 0),
    Item("tv", "medium", <<"apple">>, "amazon", FALSE, 0, 12),
    Item("movie", "medium", <<"netflix">>, "", TRUE, 0, 0),
    Item("tv", "low", <<>>, "", FALSE, 0, 4) }

Budgets == {800, 1100, 1900}

StartMonths == {11}

Watchlists(E) == UNION {[1..n -> E] : n \in 1..MaxItems}

InitWith(E, B, M) ==
  /\ watchlist \in Watchlists(E)
  /\ budget \in B
  /\ currentMonth \in M
  /\ contentState = initializeContentState(watchlist)
  /\ rotationSchedule = <<>>
  /\ monthOffset = 0
  /\ previousPlatforms = {}
  /\ pc = "loop"
  /\ result = NoResult

Init == InitWith(Entries, Budgets, StartMonths)

SimulateMonth ==
  /\ pc = "loop"
  /\ LoopContinues(watchlist, budget, LoopState)
  /\ \E st \in {MonthBody(watchlist, budget, currentMonth, LoopState)} :
       /\ contentState' = st.contentState
       /\ rotationSchedule' = st.rotationSchedule
       /\ monthOffset' = st.monthOffset
       /\ previousPlatforms' = st.previousPlatforms
  /\ UNCHANGED <<watchlist, budget, currentMonth, pc, result>>

Finish ==
  /\ pc = "loop"
  /\ ~LoopContinues(watchlist, budget, LoopState)
  /\ result' = Aggregate(watchlist, LoopState)
  /\ pc' = "done"
  /\ UNCHANGED <<watchlist, budget, currentMonth, contentState, rotationSchedule,
                 monthOffset, previousPlatforms>>

Next == SimulateMonth \/ Finish

Spec == Init /\ [][Next]_vars

(***************************************************************************)
(* Observations on the plans appended so far                               *)
(***************************************************************************)
RECURSIVE SumOver(_, _)
SumOver(S, f) ==
  IF S = {} THEN 0
  ELSE LET x == CHOOSE y \in S : TRUE IN f[x] + SumOver(S \ {x}, f)

ItemIds == 1..Len(watchlist)

Months == 1..Len(rotationSchedule)

\* Minutes entry i is credited with in the k-th plan
WatchedIn(k, i) ==
  LET items == rotationSchedule[k].itemsToWatch
  IN SumSeq([n \in 1..Len(items) |-> IF items[n].id = i THEN items[n].watchMinutes ELSE 0])

IsWatchedIn(k, i) ==
  \E n \in 1..Len(rotationSchedule[k].itemsToWatch) : rotationSchedule[k].itemsToWatch[n].id = i

\* Minutes entry i was credited with in the plans before the k-th
WatchedBefore(k, i) == SumOver(1..(k - 1), [j \in 1..(k - 1) |-> WatchedIn(j, i)])

WatchedSoFar(i) == WatchedBefore(Len(rotationSchedule) + 1, i)

\* The real duration, written out independently of the content state
RealMinutes(i) ==
  LET item == watchlist[i]
  IN IF item.totalWatchTimeMinutes # 0 THEN item.totalWatchTimeMinutes
     ELSE IF item.type = "movie" THEN 120
     ELSE IF item.episodeCount # 0 THEN item.episodeCount * 45 ELSE 450

\* What was left of entry i when the k-th month began
RemBefore(k, i) == RealMinutes(i) - WatchedBefore(k, i)

Schedulable(i) ==
  /\ ~watchlist[i].pendingPlatformSelection
  /\ (Len(watchlist[i].providers) > 0 \/ watchlist[i].userSelectedProvider # "")

EffectivePlatforms(i) ==
  IF watchlist[i].userSelectedProvider # "" THEN {watchlist[i].userSelectedProvider}
  ELSE Range(watchlist[i].providers)

PlatformsOf(k) == ServiceIds(rotationSchedule[k].services)

\* 0 = high, 1 = medium, 2 = low
Rank(i) ==
  CASE watchlist[i].priority = "high" -> 0
    [] watchlist[i].priority = "medium" -> 1
    [] OTHER -> 2

\* Entries the k-th month could give time to
CandidatesOf(k) ==
  {i \in ItemIds : Schedulable(i) /\ RemBefore(k, i) > 0
                   /\ EffectivePlatforms(i) \cap PlatformsOf(k) # {}}

(***************************************************************************)
(* C1  Budget hard cap: every MonthlyPlan appended to rotationSchedule has *)
(* monthlyCost, the sum of the prices of that month's selected platforms,  *)
(* at most the budget.                                                     *)
(***************************************************************************)
C1_BudgetHardCap ==
  \A k \in Months :
    /\ rotationSchedule[k].monthlyCost
         = SumOver(PlatformsOf(k), [p \in PlatformsOf(k) |-> getPlatformPrice(p)])
    /\ rotationSchedule[k].monthlyCost <= budget

\* C1 witness: a month under priority pressure: a high-priority entry that is still
\* unwatched has none of its platforms among the selected ones.
C1_Witness ==
  \E k \in Months : \E i \in ItemIds :
    /\ Schedulable(i) /\ Rank(i) = 0 /\ RemBefore(k, i) > 0
    /\ EffectivePlatforms(i) \cap PlatformsOf(k) = {}
    /\ getPlatformPrice(getCheapestProvider(watchlist[i])) <= budget
    /\ rotationSchedule[k].monthlyCost > 0

(***************************************************************************)
(* C2  No duration inflation: for every entry, after any number of         *)
(* simulated months, the minutes credited to it in all plans so far plus   *)
(* its remainingMinutes equal its real duration, whatever its priority;    *)
(* the cumulative watched time never exceeds the real duration and equals  *)
(* it once the entry is finished.                                          *)
(***************************************************************************)
C2_NoDurationInflation ==
  \A i \in ItemIds :
    /\ WatchedSoFar(i) + contentState[i].remainingMinutes = RealMinutes(i)
    /\ WatchedSoFar(i) <= RealMinutes(i)
    /\ (contentState[i].remainingMinutes = 0 => WatchedSoFar(i) = RealMinutes(i))

\* C2 witness: a high-priority series watched in two months and finished in the second
C2_Witness ==
  \E i \in ItemIds :
    /\ Rank(i) = 0
    /\ Len(rotationSchedule) >= 2
    /\ IsWatchedIn(1, i) /\ IsWatchedIn(2, i)
    /\ contentState[i].remainingMinutes = 0

(***************************************************************************)
(* C3  Atomic movies: a movie that appears as a ScheduledItem in a month   *)
(* is credited in that month with its full real duration and is left with  *)
(* remaining 0; it appears in at most one MonthlyPlan of the run.          *)
(***************************************************************************)
C3_AtomicMovies ==
  \A k \in Months : \A i \in ItemIds :
    (watchlist[i].type = "movie" /\ IsWatchedIn(k, i)) =>
      /\ WatchedIn(k, i) = RealMinutes(i)
      /\ \A n \in 1..Len(rotationSchedule[k].itemsToWatch) :
           rotationSchedule[k].itemsToWatch[n].id = i =>
             rotationSchedule[k].itemsToWatch[n].remainingMinutes = 0
      /\ contentState[i].remainingMinutes = 0
      /\ \A j \in Months : j # k => ~IsWatchedIn(j, i)

\* C3 witness: a movie watched in the first of at least two months, next to a series
C3_Witness ==
  /\ Len(rotationSchedule) >= 2
  /\ \E i \in ItemIds : watchlist[i].type = "movie" /\ IsWatchedIn(1, i)
  /\ \E i \in ItemIds : watchlist[i].type = "tv" /\ IsWatchedIn(1, i)

(***************************************************************************)
(* Capacity seen by one tier of the k-th month (tiers by Rank)             *)
(***************************************************************************)
IsMovie(i) == watchlist[i].type = "movie"

\* Minutes the k-th month gave to entries of a higher tier than r
HigherWatched(k, r) ==
  LET S == {i \in ItemIds : Rank(i) < r} IN SumOver(S, [i \in S |-> WatchedIn(k, i)])

\* Candidate series of tier r in the k-th month
TierSeries(k, r) == {i \in CandidatesOf(k) : Rank(i) = r /\ ~IsMovie(i)}

\* Capacity left for the series of tier r: what the higher tiers and the
\* tier's own movies did not take
TierSeriesCapacity(k, r) ==
  LET M == {i \in ItemIds : Rank(i) = r /\ IsMovie(i)}
  IN 3600 - HigherWatched(k, r) - SumOver(M, [i \in M |-> WatchedIn(k, i)])

\* Capacity left when movie x of the k-th month was considered
MovieCapacityAt(k, x) ==
  LET M == {i \in ItemIds : Rank(i) = Rank(x) /\ IsMovie(i) /\ i < x}
  IN 3600 - HigherWatched(k, Rank(x)) - SumOver(M, [i \in M |-> WatchedIn(k, i)])

(***************************************************************************)
(* Further specifications: the same program on other watchlists            *)
(***************************************************************************)
\* One platform, durations around the capacity left by a 95-minute movie
FairEntries ==
  { Item("movie", "high", <<"netflix">>, "", FALSE, 95, 0),
    Item("tv", "high", <<"netflix">>, "", FALSE, 0, 0),
    Item("tv", "high", <<"netflix">>, "", FALSE, 3055, 0),
    Item("tv", "low", <<"netflix">>, "", FALSE, 3590, 0),
    Item("tv", "medium", <<"hbo">>, "", FALSE, 0, 20) }

InitFair == InitWith(FairEntries, {800, 1900}, StartMonths)

SpecFair == InitFair /\ [][Next]_vars

\* Watchlists that outlast the horizon
LongEntries ==
  { Item("tv", "medium", <<"netflix">>, "", FALSE, 87000, 0),
    Item("movie", "high", <<"hbo">>, "", FALSE, 4000, 0),
    Item("tv", "high", <<"netflix">>, "", FALSE, 0, 0),
    Item("tv", "low", <<"amazon">>, "", FALSE, 3590, 0) }

InitLong == InitWith(LongEntries, Budgets, StartMonths)

SpecLong == InitLong /\ [][Next]_vars

(***************************************************************************)
(* C4  Intra-tier fairness: in one month and one tier, after the equal     *)
(* shares and the redistribution no series of the tier is left with fewer  *)
(* minutes than it needs, unless the capacity available to the tier's      *)
(* series was smaller than the sum of their needs.                         *)
(***************************************************************************)
C4_IntraTierFairness ==
  \A k \in Months : \A r \in 0..2 :
    (\E i \in TierSeries(k, r) : WatchedIn(k, i) < RemBefore(k, i)) =>
      TierSeriesCapacity(k, r)
        < SumOver(TierSeries(k, r), [i \in TierSeries(k, r) |-> RemBefore(k, i)])

\* The horizon of the loop, written out from the watchlist
HorizonCap ==
  LET S == {i \in ItemIds : Schedulable(i)}
      total == SumOver(S, [i \in S |-> RealMinutes(i)])
  IN Min((total + 3599) \div 3600 + 3, 24)

\* DONE: no schedulable entry has remaining > 0
LoopDone == \A i \in ItemIds : Schedulable(i) => contentState[i].remainingMinutes <= 0

\* STALLED: there is an active bucket and the selector returns no platforms
LoopStalled == ~LoopDone /\ Len(SelectedForMonth(watchlist, budget, LoopState)) = 0

(***************************************************************************)
(* C5 as claimed  Convergence: the loop appends at most                    *)
(* min(ceil(total real minutes of schedulable entries / 3600) + 3, 24)     *)
(* plans, and when it has halted it is in DONE or in STALLED.              *)
(***************************************************************************)
C5_ConvergenceAsClaimed ==
  /\ Len(rotationSchedule) <= HorizonCap
  /\ (pc = "done" => LoopDone \/ LoopStalled)

(***************************************************************************)
(* C5 as amended  Convergence: every iteration appends one plan, the loop  *)
(* appends at most min(ceil(total real minutes of schedulable entries /    *)
(* 3600) + 3, 24) plans, and when it has halted it is in DONE, in STALLED, *)
(* or it has appended exactly that many plans (the horizon is used up      *)
(* while schedulable content and affordable platforms remain).             *)
(***************************************************************************)
C5_Convergence ==
  /\ Len(rotationSchedule) <= HorizonCap
  /\ monthOffset = Len(rotationSchedule)
  /\ (pc = "done" => LoopDone \/ LoopStalled \/ Len(rotationSchedule) = HorizonCap)

\* C5 witness: the run halted on the hard cap of 24 months with content and
\* platforms left
C5_Witness ==
  /\ pc = "done"
  /\ Len(rotationSchedule) = 24
  /\ ~LoopDone /\ ~LoopStalled

(***************************************************************************)
(* C6  Every title is eventually watched: when the run has returned,       *)
(* every schedulable entry whose cheapest platform costs at most the       *)
(* budget and which, if a movie, is at most 3600 minutes long has          *)
(* remaining 0 and is not among the deferred items.                        *)
(***************************************************************************)
C6_EveryTitleWatched ==
  pc = "done" =>
    \A i \in ItemIds :
      (/\ Schedulable(i)
       /\ \E p \in EffectivePlatforms(i) : getPlatformPrice(p) <= budget
       /\ (IsMovie(i) => RealMinutes(i) <= 3600)) =>
        /\ contentState[i].remainingMinutes = 0
        /\ \A n \in 1..Len(result.deferredItems) : result.deferredItems[n].id # i

FirstWatchedIn(k, i) == IsWatchedIn(k, i) /\ \A j \in 1..(k - 1) : ~IsWatchedIn(j, i)

(***************************************************************************)
(* C7 as claimed  Higher priority is watched sooner: for schedulable X of  *)
(* strictly higher priority than Y, Y never receives watch time in a month *)
(* earlier than the first month in which X receives watch time.            *)
(***************************************************************************)
C7_HigherPrioritySoonerAsClaimed ==
  \A x, y \in ItemIds :
    (Schedulable(x) /\ Schedulable(y) /\ Rank(x) < Rank(y)) =>
      \A k \in Months : FirstWatchedIn(k, x) => \A j \in 1..(k - 1) : ~IsWatchedIn(j, y)

(***************************************************************************)
(* C7 as amended  Higher priority is watched sooner: in a month in which   *)
(* Y receives watch time, a schedulable X of strictly higher priority that *)
(* is unfinished at the start of the month receives watch time too, unless *)
(* none of X's effective platforms is selected that month, or X is a movie *)
(* longer than the capacity left when it is considered, or X is a series   *)
(* of a tier left with less than one minute per series.                    *)
(***************************************************************************)
C7_HigherPrioritySooner ==
  \A x, y \in ItemIds : \A k \in Months :
    (/\ Schedulable(x) /\ Schedulable(y) /\ Rank(x) < Rank(y)
     /\ IsWatchedIn(k, y)
     /\ RemBefore(k, x) > 0
     /\ ~IsWatchedIn(k, x)) =>
       \/ EffectivePlatforms(x) \cap PlatformsOf(k) = {}
       \/ IsMovie(x) /\ RemBefore(k, x) > MovieCapacityAt(k, x)
       \/ ~IsMovie(x) /\ TierSeriesCapacity(k, Rank(x)) < Cardinality(TierSeries(k, Rank(x)))

\* C7 witness: a low-priority series is given time, and left unfinished, in a
\* month in which an unfinished high-priority series is given time
C7_Witness ==
  \E x, y \in ItemIds : \E k \in Months :
    /\ Rank(x) = 0 /\ Rank(y) = 2 /\ ~IsMovie(x)
    /\ IsWatchedIn(k, x) /\ IsWatchedIn(k, y)
    /\ WatchedIn(k, y) < RemBefore(k, y)

(***************************************************************************)
(* C8  Coverage monotonicity: for a fixed watchlist and budgets b1 <= b2,  *)
(* the coveragePercent of the run with b1 is at most that of the run with  *)
(* b2.                                                                     *)
(***************************************************************************)
C8_CoverageMonotone ==
  pc = "done" =>
    \A b2 \in Budgets :
      budget <= b2 =>
        result.coveragePercent
          <= optimizeSubscriptions(watchlist, b2, currentMonth).coveragePercent

(***************************************************************************)
(* C9  No overlapping timelines: within one MonthlyPlan the day ranges     *)
(* [start day, end day] of two distinct ScheduledItems never overlap.      *)
(***************************************************************************)
C9_NoOverlappingTimelines ==
  \A k \in Months :
    LET items == rotationSchedule[k].itemsToWatch
    IN \A m, n \in 1..Len(items) :
         m # n => items[m].endDay < items[n].day \/ items[n].endDay < items[m].day

(***************************************************************************)
(* C10  No series minutes past day 30: a series is credited in a month     *)
(* only with minutes that fit, at 120 minutes per day, in the days from    *)
(* its start day to day 30.                                                *)
(***************************************************************************)
C10_NoSeriesMinutesPastDay30 ==
  \A k \in Months :
    LET items == rotationSchedule[k].itemsToWatch
    IN \A n \in 1..Len(items) :
         ~IsMovie(items[n].id) =>
           items[n].watchMinutes <= (30 - items[n].day + 1) * 120

(***************************************************************************)
(* C11  Deferred entries are excluded from all scheduling: an entry whose  *)
(* pendingPlatformSelection flag is set, or that has no provider and no    *)
(* user-selected provider, is in no month's itemsToWatch and in no         *)
(* selected platform's itemsToWatch, keeps remainingMinutes equal to its   *)
(* real duration, and no platform is selected because of it: every         *)
(* selected platform is the cheapest platform of a schedulable entry that  *)
(* was still unwatched when the month began.                               *)
(***************************************************************************)
C11_DeferredExcluded ==
  /\ \A i \in ItemIds : ~Schedulable(i) =>
       /\ contentState[i].remainingMinutes = RealMinutes(i)
       /\ \A k \in Months :
            /\ ~IsWatchedIn(k, i)
            /\ \A n \in 1..Len(rotationSchedule[k].services) :
                 i \notin Range(rotationSchedule[k].services[n].itemsToWatch)
  /\ \A k \in Months : \A p \in PlatformsOf(k) :
       \E j \in ItemIds :
         /\ Schedulable(j) /\ RemBefore(k, j) > 0
         /\ getCheapestProvider(watchlist[j]) = p

\* C11 witness: a month that selects a platform carrying an entry with the defer
\* flag set, in a watchlist that also holds an entry without any platform
C11_Witness ==
  \E k \in Months : \E i, j \in ItemIds :
    /\ watchlist[i].pendingPlatformSelection
    /\ Range(watchlist[i].providers) \cap PlatformsOf(k) # {}
    /\ ~watchlist[j].pendingPlatformSelection
    /\ Len(watchlist[j].providers) = 0 /\ watchlist[j].userSelectedProvider = ""

(***************************************************************************)
(* Watchlists with user-selected platforms                                 *)
(***************************************************************************)
OverrideEntries ==
  { Item("tv", "medium", <<"netflix">>, "amazon", FALSE, 0, 12),
    Item("movie", "low", <<"netflix", "hbo">>, "hbo", FALSE, 95, 0),
    Item("tv", "high", <<"netflix">>, "", FALSE, 0, 0),
    Item("tv", "high", <<"amazon">>, "", FALSE, 3700, 0),
    Item("movie", "medium", <<"apple">>, "netflix", FALSE, 0, 0) }

OverrideBudgets == {800, 1700}

InitOverride == InitWith(OverrideEntries, OverrideBudgets, StartMonths)

SpecOverride == InitOverride /\ [][Next]_vars

(***************************************************************************)
(* C12  User override is exclusive: an entry with userSelectedProvider set *)
(* has that platform as its cheapest (costing) platform, is listed only    *)
(* under that platform in a month's services, and is given watch time only *)
(* in months whose selected platforms include the override platform.       *)
(***************************************************************************)
C12_OverrideExclusive ==
  \A i \in ItemIds : watchlist[i].userSelectedProvider # "" =>
    /\ getCheapestProvider(watchlist[i]) = watchlist[i].userSelectedProvider
    /\ \A k \in Months :
         /\ IsWatchedIn(k, i) => watchlist[i].userSelectedProvider \in PlatformsOf(k)
         /\ \A n \in 1..Len(rotationSchedule[k].services) :
              i \in Range(rotationSchedule[k].services[n].itemsToWatch) =>
                rotationSchedule[k].services[n].service = watchlist[i].userSelectedProvider

\* C12 witness: a month selects a platform of the original list of an unwatched
\* entry but not its override platform, and the same entry is watched in a later
\* month that selects the override platform
C12_Witness ==
  \E i \in ItemIds : \E k, m \in Months :
    /\ watchlist[i].userSelectedProvider # ""
    /\ k < m
    /\ Range(watchlist[i].providers) \cap PlatformsOf(k) # {}
    /\ watchlist[i].userSelectedProvider \notin PlatformsOf(k)
    /\ ~IsWatchedIn(k, i)
    /\ IsWatchedIn(m, i)

(***************************************************************************)
(* Degenerate inputs: the empty watchlist, budgets of zero and below       *)
(***************************************************************************)
DegenerateEntries ==
  { Item("tv", "high", <<"netflix">>, "", FALSE, 0, 0),
    Item("movie", "medium", <<"netflix">>, "", TRUE, 0, 0),
    Item("tv", "low", <<>>, "", FALSE, 0, 4),
    Item("movie", "low", <<"paramount">>, "", FALSE, 95, 0) }

DegenerateBudgets == {-100, 0, 800}

InitDegenerate ==
  /\ watchlist \in {<<>>} \cup Watchlists(DegenerateEntries)
  /\ budget \in DegenerateBudgets
  /\ currentMonth \in StartMonths
  /\ contentState = initializeContentState(watchlist)
  /\ rotationSchedule = <<>>
  /\ monthOffset = 0
  /\ previousPlatforms = {}
  /\ pc = "loop"
  /\ result = NoResult

SpecDegenerate == InitDegenerate /\ [][Next]_vars

\* Ids of the entries of result.deferredItems, in order
DeferredIds == [k \in 1..Len(result.deferredItems) |-> result.deferredItems[k].id]

\* How often entry i is in result.deferredItems
DeferredCount(i) == Cardinality({k \in 1..Len(result.deferredItems) : DeferredIds[k] = i})

\* C13 as claimed: for an empty watchlist, and for any watchlist with budget <= 0,
\* the result has totalMonthsNeeded = 0, totalCost = 0, an empty deferredItems
\* list and the explanation that no plan could be produced.
C13_DegenerateInputAsClaimed ==
  (pc = "done" /\ (Len(watchlist) = 0 \/ budget <= 0)) =>
    /\ result.totalMonthsNeeded = 0
    /\ result.totalCost = 0
    /\ result.deferredItems = <<>>
    /\ result.explanation = "No platforms selected"

\* C13 as amended: the same, except that deferredItems is empty for the empty
\* watchlist only; with budget <= 0 it holds every entry of the watchlist once.
C13_DegenerateInput ==
  (pc = "done" /\ (Len(watchlist) = 0 \/ budget <= 0)) =>
    /\ result.totalMonthsNeeded = 0
    /\ result.totalCost = 0
    /\ result.explanation = "No platforms selected"
    /\ Len(result.deferredItems) = Len(watchlist)
    /\ \A i \in ItemIds : DeferredCount(i) = 1

\* C13 witness: the call has returned for a watchlist of schedulable, flagged and
\* platform-less entries with budget 0
C13_Witness ==
  /\ pc = "done" /\ budget = 0
  /\ \E i, j, m \in ItemIds :
       /\ Schedulable(i)
       /\ watchlist[j].pendingPlatformSelection
       /\ Len(watchlist[m].providers) = 0 /\ ~watchlist[m].pendingPlatformSelection

\* Price of the cheapest platform that covers entry i
CheapestPrice(i) ==
  CHOOSE c \in {getPlatformPrice(p) : p \in EffectivePlatforms(i)} :
    \A p \in EffectivePlatforms(i) : c <= getPlatformPrice(p)

\* No schedulable entry has a covering platform within the budget
Unaffordable == \A i \in ItemIds : Schedulable(i) => CheapestPrice(i) > budget

\* Entry i is in result.deferredItems with that reason
DeferredFor(i, reason) ==
  \E k \in 1..Len(result.deferredItems) :
    result.deferredItems[k] = [id |-> i, reason |-> reason]

(***************************************************************************)
(* C14  Unaffordable watchlist stalls at once: if the cheapest covering    *)
(* platform of every schedulable entry costs more than the budget, the     *)
(* loop appends no plan, is STALLED in its first iteration when there is a *)
(* schedulable entry, and the result has zero months, zero cost and every  *)
(* schedulable entry in deferredItems with the reason that it could not    *)
(* fit within budget constraints.                                          *)
(***************************************************************************)
C14_UnaffordableStalls ==
  Unaffordable =>
    /\ rotationSchedule = <<>>
    /\ monthOffset = 0
    /\ (\E i \in ItemIds : Schedulable(i)) => LoopStalled
    /\ pc = "done" =>
         /\ result.totalMonthsNeeded = 0
         /\ result.totalCost = 0
         /\ \A i \in ItemIds : Schedulable(i) =>
              DeferredFor(i, "Could not fit within budget constraints")

\* C14 witness: the call has returned for a watchlist with two schedulable entries
\* of different tiers, on different platforms, none of them affordable
C14_Witness ==
  /\ pc = "done" /\ Unaffordable
  /\ \E i, j \in ItemIds :
       /\ Schedulable(i) /\ Schedulable(j)
       /\ Rank(i) # Rank(j)
       /\ EffectivePlatforms(i) \cap EffectivePlatforms(j) = {}

\* The budget kept entry i from being scheduled: no covering platform is within
\* the budget, or the loop ended STALLED, or a month went by without any of its
\* platforms while it waited
BudgetKept(i) ==
  \/ CheapestPrice(i) > budget
  \/ LoopStalled
  \/ \E k \in Months : RemBefore(k, i) > 0 /\ EffectivePlatforms(i) \cap PlatformsOf(k) = {}

(***************************************************************************)
(* C15  Deferred reasons name the real cause: when the run has ended every *)
(* entry with remaining > 0 is in deferredItems with the reason of its     *)
(* blocking condition: pending user decision if its defer flag is set; no  *)
(* platform available if it has no effective platform; real duration       *)
(* exceeding one month's capacity if its real duration is above 3600       *)
(* minutes and it was never placed; could not fit the budget only when the *)
(* budget is what kept it from being scheduled.                            *)
(***************************************************************************)
C15_DeferredReasons ==
  pc = "done" =>
    \A i \in ItemIds : contentState[i].remainingMinutes > 0 =>
      /\ \E k \in 1..Len(result.deferredItems) : result.deferredItems[k].id = i
      /\ watchlist[i].pendingPlatformSelection =>
           DeferredFor(i, "Pending platform selection")
      /\ (~watchlist[i].pendingPlatformSelection /\ EffectivePlatforms(i) = {}) =>
           DeferredFor(i, "No streaming platform available")
      /\ (Schedulable(i) /\ RealMinutes(i) > 3600 /\ WatchedSoFar(i) = 0
            /\ ~BudgetKept(i)) =>
           DeferredFor(i, "Real duration exceeds one month's capacity")
      /\ DeferredFor(i, "Could not fit within budget constraints") =>
           (Schedulable(i) /\ BudgetKept(i))

(***************************************************************************)
(* Watchlists of long series, next to entries that are not schedulable     *)
(***************************************************************************)
SeriesEntries ==
  { Item("tv", "low", <<"netflix">>, "", FALSE, 4000, 0),
    Item("tv", "high", <<"hbo">>, "", FALSE, 3600, 0),
    Item("tv", "medium", <<"apple", "netflix">>, "", FALSE, 7201, 0),
    Item("tv", "low", <<"paramount">>, "", FALSE, 86400, 0),
    Item("movie", "high", <<"netflix">>, "", TRUE, 0, 0),
    Item("tv", "medium", <<>>, "", FALSE, 0, 4) }

InitSeries == InitWith(SeriesEntries, {800, 1900}, StartMonths)

SpecSeries == InitSeries /\ [][Next]_vars

\* The watchlist holds a single schedulable entry, a series of at most 24 months
\* on a platform within the budget
SingleSeries(i) ==
  /\ Schedulable(i) /\ ~IsMovie(i)
  /\ \A j \in ItemIds : Schedulable(j) => j = i
  /\ RealMinutes(i) <= 24 * 3600
  /\ CheapestPrice(i) <= budget

(***************************************************************************)
(* C16  A long series spans months exactly: a watchlist holding a single   *)
(* schedulable series of D real minutes (D <= 24 * 3600) on a platform     *)
(* with price <= budget is watched min(3600, remaining) minutes in each    *)
(* consecutive month, takes exactly ceil(D / 3600) months, and the minutes *)
(* watched over all months sum to exactly D.                               *)
(***************************************************************************)
C16_LongSeriesSpansMonths ==
  \A i \in ItemIds : SingleSeries(i) =>
    /\ \A k \in Months : WatchedIn(k, i) = Min(3600, RemBefore(k, i))
    /\ Len(rotationSchedule) <= (RealMinutes(i) + 3599) \div 3600
    /\ pc = "done" =>
         /\ Len(rotationSchedule) = (RealMinutes(i) + 3599) \div 3600
         /\ result.totalMonthsNeeded = (RealMinutes(i) + 3599) \div 3600
         /\ WatchedSoFar(i) = RealMinutes(i)
         /\ contentState[i].remainingMinutes = 0

\* C16 witness: the call has returned for a single series of 4000 minutes, watched
\* 3600 minutes in the first month and 400 in the second
C16_Witness ==
  /\ pc = "done"
  /\ \E i \in ItemIds :
       /\ SingleSeries(i) /\ RealMinutes(i) = 4000
       /\ Len(rotationSchedule) = 2
       /\ WatchedIn(1, i) = 3600 /\ WatchedIn(2, i) = 400

(***************************************************************************)
(* Watchlists of movies and series that fill one month or nearly so        *)
(***************************************************************************)
PairEntries ==
  { Item("movie", "high", <<"netflix">>, "", FALSE, 95, 0),
    Item("movie", "medium", <<"hbo">>, "", FALSE, 0, 0),
    Item("movie", "high", <<"paramount", "netflix">>, "", FALSE, 95, 0),
    Item("tv", "high", <<"netflix">>, "", FALSE, 3505, 0),
    Item("tv", "high", <<"netflix">>, "", FALSE, 3506, 0),
    Item("tv", "medium", <<"hbo">>, "", FALSE, 0, 0),
    Item("tv", "high", <<"apple">>, "netflix", FALSE, 0, 12) }

InitPair == InitWith(PairEntries, {800, 1900}, StartMonths)

SpecPair == InitPair /\ [][Next]_vars

\* The platform entry i is costed on: the first of its platforms at the lowest price
CheapestPlatform(i) ==
  LET ps == IF watchlist[i].userSelectedProvider # ""
            THEN <<watchlist[i].userSelectedProvider>> ELSE watchlist[i].providers
      k == CHOOSE n \in 1..Len(ps) :
             /\ \A j \in 1..Len(ps) : getPlatformPrice(ps[n]) <= getPlatformPrice(ps[j])
             /\ \A j \in 1..(n - 1) : getPlatformPrice(ps[j]) > getPlatformPrice(ps[n])
  IN ps[k]

\* The watchlist is movie m and series s of one priority on one platform within
\* the budget, and the two fit into one month
MovieAndSeries(m, s) ==
  /\ Len(watchlist) = 2 /\ m # s
  /\ IsMovie(m) /\ ~IsMovie(s)
  /\ Schedulable(m) /\ Schedulable(s)
  /\ Rank(m) = Rank(s)
  /\ CheapestPlatform(m) = CheapestPlatform(s)
  /\ getPlatformPrice(CheapestPlatform(m)) <= budget
  /\ RealMinutes(m) + RealMinutes(s) <= 3600

C18_MonthClassification ==
  \A k \in Months :
    /\ rotationSchedule[k].action \in {"subscribe", "keep", "rotate"}
    /\ k = 1 => rotationSchedule[k].action = "subscribe"
    /\ k > 1 =>
         /\ rotationSchedule[k].action = "keep" <=> PlatformsOf(k) = PlatformsOf(k - 1)
         /\ rotationSchedule[k].action = "rotate" <=> PlatformsOf(k) # PlatformsOf(k - 1)

\* C18 witness: a run with a month that drops one of the two platforms of the
\* month before, followed by a month that keeps the platforms
C18_Witness ==
  \E j, k \in Months :
    /\ k > 1 /\ PlatformsOf(k) # PlatformsOf(k - 1) /\ PlatformsOf(k) \subseteq PlatformsOf(k - 1)
    /\ j > k /\ PlatformsOf(j) = PlatformsOf(j - 1)

(***************************************************************************)
(* C19  Coverage and deferred list: when optimizeSubscriptions returns, an *)
(* entry is in deferredItems if and only if its defer flag is set or its   *)
(* remaining is > 0, each such entry is there exactly once, and            *)
(* coveragePercent is (number of entries - number of deferred entries) /   *)
(* number of entries * 100 rounded to the nearest integer, halves upwards, *)
(* with 0 for an empty watchlist; hence 0 <= coveragePercent <= 100.       *)
(***************************************************************************)
C19_CoverageAndDeferred ==
  pc = "done" =>
    LET n == Len(watchlist)
        d == Cardinality({i \in ItemIds : watchlist[i].pendingPlatformSelection
                                          \/ contentState[i].remainingMinutes > 0})
        c == result.coveragePercent
    IN /\ \A i \in ItemIds :
            DeferredCount(i) = IF watchlist[i].pendingPlatformSelection
                                  \/ contentState[i].remainingMinutes > 0
                               THEN 1 ELSE 0
       /\ Len(result.deferredItems) = d
       /\ n = 0 => c = 0
       /\ n > 0 => (2 * n * c <= 200 * (n - d) + n /\ 2 * n * c > 200 * (n - d) - n)
       /\ 0 <= c /\ c <= 100

\* C19 witness: the call has returned for three entries, one watched to the end
\* and one flagged, and reports a coverage of 33 percent
C19_Witness ==
  /\ pc = "done" /\ Len(watchlist) = 3
  /\ \E i, j \in ItemIds :
       /\ contentState[i].remainingMinutes = 0
       /\ watchlist[j].pendingPlatformSelection
  /\ result.coveragePercent = 33

(***************************************************************************)
(* The savings shown by the timeline (SubscriptionTimeline)                *)
(***************************************************************************)
\* STREAMING_SERVICES.reduce((sum, s) => sum + s.price, 0)
allServicesMonthly ==
  SumOver(DOMAIN STREAMING_SERVICES, STREAMING_SERVICES)

\* (allServicesMonthly * totalMonthsNeeded) - totalCost
potentialSavings(schedule, totalMonthsNeeded) ==
  allServicesMonthly * totalMonthsNeeded
    - SumSeq([k \in 1..Len(schedule) |-> schedule[k].monthlyCost])

(***************************************************************************)
(* C20  Savings: estimatedSavings equals the sum of the monthly prices of  *)
(* the platforms of the static catalog (STREAMING_SERVICES) multiplied by  *)
(* totalMonthsNeeded, minus the sum of monthlyCost over all MonthlyPlans;  *)
(* it is the same amount the timeline shows as savings for the same result.*)
(***************************************************************************)
C20_Savings ==
  pc = "done" =>
    /\ result.estimatedSavings
         = (799 + 999 + 999 + 899 + 1099 + 1299 + 799 + 899) * result.totalMonthsNeeded
           - SumOver(Months, [k \in Months |-> rotationSchedule[k].monthlyCost])
    /\ Len(rotationSchedule) > 0 =>
         result.estimatedSavings = potentialSavings(rotationSchedule, result.totalMonthsNeeded)

(***************************************************************************)
(* Observations on the active bucket of the current state                  *)
(***************************************************************************)
\* Schedulable entries that are not finished
Unfinished == {i \in ItemIds : Schedulable(i) /\ contentState[i].remainingMinutes > 0}

\* The tier a priority name stands for
RankOfName(p) == CASE p = "high" -> 0 [] p = "medium" -> 1 [] p = "low" -> 2 [] OTHER -> 3

ActiveBucket == getActivePriorityBucket(watchlist, contentState)

(***************************************************************************)
(* C21  Active bucket: getActivePriorityBucket returns the highest tier in *)
(* the order high, medium, low that contains at least one schedulable      *)
(* entry with remaining > 0, together with exactly the schedulable         *)
(* unfinished entries of that tier; it returns none if and only if no      *)
(* schedulable entry has remaining > 0.                                    *)
(***************************************************************************)
C21_ActiveBucket ==
  /\ ActiveBucket = NoBucket <=> Unfinished = {}
  /\ Unfinished # {} =>
       /\ \A i \in Unfinished : RankOfName(ActiveBucket.priority) <= Rank(i)
       /\ \E i \in Unfinished : RankOfName(ActiveBucket.priority) = Rank(i)
       /\ Range(ActiveBucket.items)
            = {i \in Unfinished : Rank(i) = RankOfName(ActiveBucket.priority)}
       /\ Len(ActiveBucket.items) = Cardinality(Range(ActiveBucket.items))

\* C21 witness: after a month the low tier is the active one, a high-priority
\* entry is finished and a flagged entry of a higher tier is passed over
C21_Witness ==
  /\ monthOffset >= 1 /\ pc = "loop"
  /\ ActiveBucket.priority = "low"
  /\ \E i, j \in ItemIds :
       /\ Rank(i) = 0 /\ contentState[i].remainingMinutes = 0
       /\ Rank(j) < 2 /\ watchlist[j].pendingPlatformSelection

(***************************************************************************)
(* Watchlists with entries carried by several platforms of the same price  *)
(***************************************************************************)
TieEntries ==
  { Item("tv", "high", <<"paramount">>, "", FALSE, 3000, 0),
    Item("tv", "medium", <<"netflix", "paramount">>, "", FALSE, 4000, 0),
    Item("movie", "high", <<"paramount", "netflix">>, "", FALSE, 95, 0),
    Item("tv", "low", <<"netflix">>, "", FALSE, 0, 0),
    Item("tv", "medium", <<"hbo", "amazon", "peacock">>, "", FALSE, 0, 0) }

InitTie == InitWith(TieEntries, {900, 1900}, StartMonths)

SpecTie == InitTie /\ [][Next]_vars

\* The tier of the active bucket of the k-th month (3 when there was none)
ActiveRankOf(k) ==
  LET S == {Rank(i) : i \in {j \in ItemIds : Schedulable(j) /\ RemBefore(k, j) > 0}}
  IN IF S = {} THEN 3 ELSE CHOOSE r \in S : \A q \in S : r <= q

\* The effective platforms of entry i that have the lowest price
TieSet(i) == {p \in EffectivePlatforms(i) : getPlatformPrice(p) = CheapestPrice(i)}

(***************************************************************************)
(* C22  Cheapest platform and tie-break: for every active-bucket entry the *)
(* platform chosen for it has the minimum price among its effective        *)
(* platforms, and when several of its effective platforms share that       *)
(* minimum price and one of them was selected in the previous month, the   *)
(* previously used platform is the one chosen.                             *)
(***************************************************************************)
C22_CheapestAndTieBreak ==
  \A k \in Months : \A n \in 1..Len(rotationSchedule[k].services) :
    LET svc == rotationSchedule[k].services[n]
    IN \A i \in Range(svc.itemsToWatch) : Rank(i) = ActiveRankOf(k) =>
         /\ svc.service \in TieSet(i)
         /\ (k > 1 /\ TieSet(i) \cap PlatformsOf(k - 1) # {}) =>
              svc.service \in PlatformsOf(k - 1)

\* Platform p is the cheapest platform of an unfinished entry of the active tier
\* of the k-th month
ServesActiveBucket(k, p) ==
  \E i \in ItemIds :
    /\ Schedulable(i) /\ RemBefore(k, i) > 0 /\ Rank(i) = ActiveRankOf(k)
    /\ CheapestPlatform(i) = p

\* Platform p is the cheapest platform of an unfinished entry of a lower tier
ServesLowerTier(k, p) ==
  \E i \in ItemIds :
    /\ Schedulable(i) /\ RemBefore(k, i) > 0 /\ Rank(i) > ActiveRankOf(k)
    /\ CheapestPlatform(i) = p

(***************************************************************************)
(* C23  Churn rule: every platform selected in a month is either the       *)
(* cheapest covering platform of an active-bucket entry, within the        *)
(* budget, or a platform that was selected in the immediately preceding    *)
(* month and is the cheapest platform of a lower-priority unfinished       *)
(* entry; in the first month every selected platform serves the active     *)
(* bucket.                                                                 *)
(***************************************************************************)
C23_ChurnRule ==
  \A k \in Months : \A p \in PlatformsOf(k) :
    /\ getPlatformPrice(p) <= budget
    /\ \/ ServesActiveBucket(k, p)
       \/ k > 1 /\ p \in PlatformsOf(k - 1) /\ ServesLowerTier(k, p)
    /\ k = 1 => ServesActiveBucket(k, p)

\* C23 witness: a month keeps a platform of the month before for a lower-priority
\* entry only, and the first month left out an affordable platform of a lower tier
C23_Witness ==
  /\ \E k \in Months : \E p \in PlatformsOf(k) :
       k > 1 /\ ~ServesActiveBucket(k, p) /\ ServesLowerTier(k, p)
  /\ \E j \in Months : \E i \in ItemIds :
       /\ Schedulable(i) /\ RemBefore(j, i) > 0 /\ Rank(i) > ActiveRankOf(j)
       /\ CheapestPlatform(i) \notin PlatformsOf(j)
       /\ rotationSchedule[j].monthlyCost + CheapestPrice(i) <= budget

(***************************************************************************)
(* C24  Lower tiers do not spend budget the active tier needs: in a month  *)
(* in which at least one active-bucket entry is deferred because its       *)
(* platform does not fit the budget, no platform is added to the selection *)
(* for entries of a lower priority: every selected platform serves the     *)
(* active bucket.                                                          *)
(***************************************************************************)
C24_LowerTiersAddNothing ==
  \A k \in Months :
    (\E i \in ItemIds :
       /\ Schedulable(i) /\ RemBefore(k, i) > 0 /\ Rank(i) = ActiveRankOf(k)
       /\ CheapestPlatform(i) \notin PlatformsOf(k))
    => \A p \in PlatformsOf(k) : ServesActiveBucket(k, p)

(***************************************************************************)
(* Watchlists of up to MaxTierItems entries on one platform, with two      *)
(* series in a tier behind a movie                                         *)
(***************************************************************************)
MaxTierItems == 4

TierEntries ==
  { Item("movie", "high", <<"netflix">>, "", FALSE, 95, 0),
    Item("tv", "high", <<"netflix">>, "", FALSE, 2000, 0),
    Item("tv", "high", <<"netflix">>, "", FALSE, 0, 0),
    Item("tv", "low", <<"netflix">>, "", FALSE, 0, 0) }

InitTier ==
  /\ watchlist \in UNION {[1..n -> TierEntries] : n \in 1..MaxTierItems}
  /\ budget \in {800}
  /\ currentMonth \in StartMonths
  /\ contentState = initializeContentState(watchlist)
  /\ rotationSchedule = <<>>
  /\ monthOffset = 0
  /\ previousPlatforms = {}
  /\ pc = "loop"
  /\ result = NoResult

SpecTier == InitTier /\ [][Next]_vars

(***************************************************************************)
(* C25  Tier exhaustion before descent: within one month, an entry of a    *)
(* lower tier receives watch time only if every candidate series of every  *)
(* higher tier in that month has been allocated all the minutes it needs.  *)
(***************************************************************************)
C25_TierExhaustedBeforeDescent ==
  \A k \in Months : \A i \in ItemIds :
    WatchedIn(k, i) > 0 =>
      \A j \in CandidatesOf(k) :
        (~IsMovie(j) /\ Rank(j) < Rank(i)) => WatchedIn(k, j) = RemBefore(k, j)

(***************************************************************************)
(* Watchlists of movies and series on one platform, around the capacity    *)
(***************************************************************************)
MovieEntries ==
  { Item("movie", "low", <<"netflix">>, "", FALSE, 0, 0),
    Item("movie", "high", <<"netflix">>, "", FALSE, 95, 0),
    Item("movie", "high", <<"netflix">>, "", FALSE, 3600, 0),
    Item("tv", "high", <<"netflix">>, "", FALSE, 3550, 0),
    Item("tv", "low", <<"netflix">>, "", FALSE, 0, 0) }

InitMovies == InitWith(MovieEntries, {800}, StartMonths)

SpecMovies == InitMovies /\ [][Next]_vars

\* Position of entry i in the k-th month's itemsToWatch (0 when absent)
PositionIn(k, i) ==
  IF IsWatchedIn(k, i)
  THEN CHOOSE n \in 1..Len(rotationSchedule[k].itemsToWatch) :
         rotationSchedule[k].itemsToWatch[n].id = i
  ELSE 0

(***************************************************************************)
(* C26  Movies before series in a tier: within a tier the movies are       *)
(* considered before any series of the tier is allocated time, and the     *)
(* series are allocated out of the capacity left after the tier's movies;  *)
(* a candidate movie is left unscheduled in a month only when its          *)
(* remaining duration exceeds the monthly capacity still unused at the     *)
(* moment it is considered.                                                *)
(***************************************************************************)
C26_MoviesBeforeSeries ==
  \A k \in Months :
    /\ \A x \in CandidatesOf(k) : IsMovie(x) =>
         /\ ~IsWatchedIn(k, x) <=> RemBefore(k, x) > MovieCapacityAt(k, x)
         /\ \A s \in ItemIds :
              (~IsMovie(s) /\ Rank(s) = Rank(x) /\ IsWatchedIn(k, x) /\ IsWatchedIn(k, s)) =>
                /\ PositionIn(k, x) < PositionIn(k, s)
                /\ rotationSchedule[k].itemsToWatch[PositionIn(k, x)].day
                     < rotationSchedule[k].itemsToWatch[PositionIn(k, s)].day
    /\ \A r \in 0..2 :
         SumOver(TierSeries(k, r), [s \in TierSeries(k, r) |-> WatchedIn(k, s)])
           <= TierSeriesCapacity(k, r)

\* C26 witness: a month schedules a movie, leaves a second movie of the tier out
\* because it is longer than the capacity left, and gives that capacity to a
\* series of the same tier
C26_Witness ==
  \E k \in Months : \E x, y, s \in CandidatesOf(k) :
    /\ IsMovie(x) /\ IsMovie(y) /\ ~IsMovie(s)
    /\ Rank(x) = Rank(y) /\ Rank(y) = Rank(s)
    /\ IsWatchedIn(k, x) /\ ~IsWatchedIn(k, y)
    /\ WatchedIn(k, s) = 3600 - WatchedIn(k, x)

\* Minutes the k-th month gave to all entries
TotalWatchedIn(k) == SumOver(ItemIds, [i \in ItemIds |-> WatchedIn(k, i)])

(***************************************************************************)
(* C27  Monthly capacity: in every MonthlyPlan the total of the minutes    *)
(* watched by its ScheduledItems is <= 3600 and equals the plan's total    *)
(* watch time; the capacity left after each tier is never negative; and    *)
(* within a tier the sum of the series allocations never exceeds the       *)
(* capacity available to the tier's series.                                *)
(***************************************************************************)
C27_MonthlyCapacity ==
  \A k \in Months :
    /\ TotalWatchedIn(k) <= 3600
    /\ rotationSchedule[k].totalWatchMinutes = TotalWatchedIn(k)
    /\ \A r \in 0..2 :
         /\ 3600 - HigherWatched(k, r + 1) >= 0
         /\ TierSeriesCapacity(k, r) >= 0
         /\ SumOver(TierSeries(k, r), [s \in TierSeries(k, r) |-> WatchedIn(k, s)])
              <= TierSeriesCapacity(k, r)

\* C27 witness: a month filled to the last minute in which a series received
\* more than the equal share of its tier, out of the surplus of another
C27_Witness ==
  \E k \in Months : \E r \in 0..2 : \E s, t \in TierSeries(k, r) :
    /\ TotalWatchedIn(k) = 3600
    /\ s # t
    /\ WatchedIn(k, t) = RemBefore(k, t)
    /\ WatchedIn(k, s) > TierSeriesCapacity(k, r) \div Cardinality(TierSeries(k, r))

(***************************************************************************)
(* C28  Remaining counter: for every entry, in every state reached during  *)
(* a run, 0 <= remaining <= real duration; remaining never increases from  *)
(* one month to the next (every month credits between 0 minutes and what   *)
(* was left); and once it is 0 the entry is never again in an active       *)
(* bucket, in a platform's itemsToWatch or in a month's ScheduledItems.    *)
(***************************************************************************)
C28_RemainingCounter ==
  \A i \in ItemIds :
    /\ 0 <= contentState[i].remainingMinutes
    /\ contentState[i].remainingMinutes <= RealMinutes(i)
    /\ contentState[i].remainingMinutes = RemBefore(Len(rotationSchedule) + 1, i)
    /\ contentState[i].remainingMinutes = 0 => i \notin Range(ActiveBucket.items)
    /\ \A k \in Months :
         /\ 0 <= WatchedIn(k, i) /\ WatchedIn(k, i) <= RemBefore(k, i)
         /\ \A n \in 1..Len(rotationSchedule[k].itemsToWatch) :
              rotationSchedule[k].itemsToWatch[n].id = i =>
                rotationSchedule[k].itemsToWatch[n].remainingMinutes = RemBefore(k + 1, i)
         /\ RemBefore(k, i) = 0 =>
              /\ ~IsWatchedIn(k, i)
              /\ \A n \in 1..Len(rotationSchedule[k].services) :
                   i \notin Range(rotationSchedule[k].services[n].itemsToWatch)

\* C28 witness: a second month on the platform of an entry that was finished in
\* the first, while another entry is watched in both months
C28_Witness ==
  /\ Len(rotationSchedule) >= 2
  /\ \E i, j \in ItemIds :
       /\ RemBefore(2, i) = 0
       /\ EffectivePlatforms(i) \cap PlatformsOf(2) # {}
       /\ IsWatchedIn(1, j) /\ IsWatchedIn(2, j)
       /\ RemBefore(2, j) < RealMinutes(j)

(***************************************************************************)
(* Watchlists of series of one platform with an odd surplus to share       *)
(***************************************************************************)
ShareEntries ==
  { Item("tv", "high", <<"netflix">>, "", FALSE, 449, 0),
    Item("tv", "high", <<"netflix">>, "", FALSE, 2000, 0),
    Item("tv", "high", <<"netflix">>, "", FALSE, 1576, 0),
    Item("tv", "medium", <<"netflix">>, "", FALSE, 100, 0) }

InitShare == InitWith(ShareEntries, {800}, StartMonths)

SpecShare == InitShare /\ [][Next]_vars

(***************************************************************************)
(* C29  Same-tier series progress together: within one month and one tier, *)
(* if any series of the tier receives minutes then every unfinished        *)
(* candidate series of the tier receives at least one minute, and any two  *)
(* series of the tier that are both still unfinished after the month's     *)
(* allocation received allocations that differ by at most one minute.      *)
(***************************************************************************)
C29_SeriesProgressTogether ==
  \A k \in Months : \A r \in 0..2 :
    /\ (\E s \in TierSeries(k, r) : WatchedIn(k, s) > 0) =>
         \A s \in TierSeries(k, r) : WatchedIn(k, s) >= 1
    /\ \A s, t \in TierSeries(k, r) :
         (RemBefore(k + 1, s) > 0 /\ RemBefore(k + 1, t) > 0) =>
           /\ WatchedIn(k, s) - WatchedIn(k, t) <= 1
           /\ WatchedIn(k, t) - WatchedIn(k, s) <= 1

\* C29 witness: after a redistribution two series of a tier are still unfinished
\* and one of them received one minute more than the other
C29_Witness ==
  \E k \in Months : \E r \in 0..2 : \E s, t \in TierSeries(k, r) :
    /\ RemBefore(k + 1, s) > 0 /\ RemBefore(k + 1, t) > 0
    /\ WatchedIn(k, s) = WatchedIn(k, t) + 1

(***************************************************************************)
(* Watchlists whose tiers redistribute a surplus in several rounds: short  *)
(* and long series of one tier, and a movie that leaves them five minutes. *)
(***************************************************************************)
SurplusEntries ==
  { Item("movie", "high", <<"netflix">>, "", FALSE, 3595, 0),
    Item("tv", "high", <<"netflix">>, "", FALSE, 1, 0),
    Item("tv", "high", <<"netflix">>, "", FALSE, 100, 0),
    Item("tv", "high", <<"netflix">>, "", FALSE, 950, 0),
    Item("tv", "high", <<"netflix">>, "", FALSE, 1200, 0),
    Item("tv", "high", <<"netflix">>, "", FALSE, 3000, 0) }

InitSurplus ==
  /\ watchlist \in UNION {[1..n -> SurplusEntries] : n \in 1..MaxTierItems}
  /\ budget \in {800}
  /\ currentMonth \in StartMonths
  /\ contentState = initializeContentState(watchlist)
  /\ rotationSchedule = <<>>
  /\ monthOffset = 0
  /\ previousPlatforms = {}
  /\ pc = "loop"
  /\ result = NoResult

SpecSurplus == InitSurplus /\ [][Next]_vars

\* The series of tier r the k-th month allocated time to, in watchlist order
ActiveSeriesOf(k, r) ==
  SelectSeq([i \in 1..Len(watchlist) |-> i], LAMBDA i : i \in TierSeries(k, r))

\* What is left of every entry when the k-th month is scheduled
StateBefore(k) == [i \in ItemIds |-> [remainingMinutes |-> RemBefore(k, i)]]

\* The state in which the second pass of tier r left the k-th month
ExitOf(k, r) ==
  RedistributionOf(ActiveSeriesOf(k, r), StateBefore(k),
                   FirstPass(ActiveSeriesOf(k, r), StateBefore(k),
                             TierSeriesCapacity(k, r) \div Cardinality(TierSeries(k, r))))

\* The loop ran on tier r of the k-th month
Allocated(k, r) == TierSeries(k, r) # {} /\ TierSeriesCapacity(k, r) > 0

LoopExitOk(k, r, exit) ==
  /\ \A i \in TierSeries(k, r) : exit.alloc[i] = WatchedIn(k, i)
  /\ exit.iterations <= Cardinality(TierSeries(k, r))
  /\ \/ exit.surplus = 0
     \/ \A i \in TierSeries(k, r) : exit.alloc[i] = RemBefore(k, i)

(***************************************************************************)
(* C30  Surplus redistribution terminates: for every set of series and     *)
(* every capacity the redistribution loop ends, after at most as many      *)
(* iterations as the tier has active series, and when it ends either the   *)
(* surplus is 0 or every series of the tier has all the minutes it needs.  *)
(* The allocations the loop ends with are the minutes the month's plan     *)
(* credits to the series.                                                  *)
(***************************************************************************)
C30_RedistributionTerminates ==
  \A k \in Months : \A r \in 0..2 :
    Allocated(k, r) => LoopExitOk(k, r, ExitOf(k, r))

\* Three rounds over four series: the surplus of the shortest is handed on
\* while two more series finish
LoopRanThrice(k, r, exit) ==
  /\ exit.iterations = 3
  /\ exit.surplus = 0
  /\ \E i \in TierSeries(k, r) : exit.alloc[i] < RemBefore(k, i)

C30_Witness ==
  \E k \in Months : \E r \in 0..2 :
    Allocated(k, r) /\ LoopRanThrice(k, r, ExitOf(k, r))

(***************************************************************************)
(* C31  Scheduled implies subscribed: every ScheduledItem of a month is an *)
(* entry that is schedulable, had minutes left when the month began and    *)
(* has at least one effective platform among the month's platforms; no     *)
(* entry is given watch time in a month in which none of its effective     *)
(* platforms is subscribed.                                                *)
(***************************************************************************)
C31_ScheduledImpliesSubscribed ==
  \A k \in Months : \A n \in 1..Len(rotationSchedule[k].itemsToWatch) :
    LET i == rotationSchedule[k].itemsToWatch[n].id
    IN /\ i \in ItemIds
       /\ Schedulable(i)
       /\ RemBefore(k, i) > 0
       /\ EffectivePlatforms(i) \cap PlatformsOf(k) # {}

\* C31 witness: a month that gives time to one entry while another one,
\* schedulable and unfinished, has none of its platforms subscribed and
\* gets no time
C31_Witness ==
  \E k \in Months : \E i, j \in ItemIds :
    /\ IsWatchedIn(k, i)
    /\ Schedulable(j) /\ RemBefore(k, j) > 0
    /\ EffectivePlatforms(j) \cap PlatformsOf(k) = {}
    /\ ~IsWatchedIn(k, j)
    /\ TotalWatchedIn(k) + RemBefore(k, j) <= 3600

\* Entries the n-th service of the k-th plan lists under itemsToWatch
ListedBy(k, n) == Range(rotationSchedule[k].services[n].itemsToWatch)

(***************************************************************************)
(* C32  Platforms carry what they cover: in every MonthlyPlan each         *)
(* selected platform's itemsToWatch is non-empty and holds every           *)
(* schedulable entry, unfinished when the month began, that the platform   *)
(* covers, so that every ScheduledItem of the month is listed by at least  *)
(* one of the month's services.                                            *)
(***************************************************************************)
C32_PlatformsCarryCoverage ==
  \A k \in Months :
    /\ \A n \in 1..Len(rotationSchedule[k].services) :
         /\ ListedBy(k, n) # {}
         /\ \A i \in ItemIds :
              (/\ Schedulable(i)
               /\ RemBefore(k, i) > 0
               /\ rotationSchedule[k].services[n].service \in EffectivePlatforms(i))
                => i \in ListedBy(k, n)
    /\ \A i \in ItemIds :
         IsWatchedIn(k, i) =>
           \E n \in 1..Len(rotationSchedule[k].services) : i \in ListedBy(k, n)

\* Minutes all entries together had left when the k-th month began
TotalRemBefore(k) == SumOver(ItemIds, [i \in ItemIds |-> RemBefore(k, i)])

(***************************************************************************)
(* C33  Every paid month makes progress: every MonthlyPlan appended to     *)
(* rotationSchedule holds at least one ScheduledItem with watched minutes  *)
(* > 0, so the total of the remaining minutes is strictly smaller after    *)
(* the month than before it.                                               *)
(***************************************************************************)
C33_PaidMonthProgress ==
  \A k \in Months :
    /\ \E n \in 1..Len(rotationSchedule[k].itemsToWatch) :
         rotationSchedule[k].itemsToWatch[n].watchMinutes > 0
    /\ TotalRemBefore(k + 1) < TotalRemBefore(k)

\* The loop halts as STALLED: within the horizon the selector returns no platforms
HaltsStalled == LoopStalled /\ monthOffset < HorizonMonths(watchlist)

(***************************************************************************)
(* C34  Stall only when nothing is affordable: the loop halts as STALLED   *)
(* only in a state where no schedulable unfinished entry, of any tier, has *)
(* a covering platform with price <= budget; an unaffordable entry of the  *)
(* active tier does not keep affordable entries of lower tiers from being  *)
(* scheduled.                                                              *)
(***************************************************************************)
C34_StallOnlyWhenUnaffordable ==
  HaltsStalled => \A i \in Unfinished : CheapestPrice(i) > budget

(***************************************************************************)
(* Watchlists that fill the days of one month: a run of short movies of    *)
(* one tier and platform, followed by up to two more entries.              *)
(***************************************************************************)
MaxRun == 30

ShortMovie == Item("movie", "high", <<"netflix">>, "", FALSE, 95, 0)

RunOfMovies(n) == [k \in 1..n |-> ShortMovie]

RunTailEntries ==
  { ShortMovie,
    Item("tv", "high", <<"netflix">>, "", FALSE, 0, 0),
    Item("tv", "low", <<"netflix">>, "", FALSE, 100, 0) }

RunTails == {<<>>} \cup UNION {[1..n -> RunTailEntries] : n \in 1..2}

InitRun ==
  /\ watchlist \in {RunOfMovies(n) \o t : n \in (MaxRun - 3)..MaxRun, t \in RunTails}
  /\ budget \in {800, 1900}
  /\ currentMonth \in StartMonths
  /\ contentState = initializeContentState(watchlist)
  /\ rotationSchedule = <<>>
  /\ monthOffset = 0
  /\ previousPlatforms = {}
  /\ pc = "loop"
  /\ result = NoResult

SpecRun == InitRun /\ [][Next]_vars

(***************************************************************************)
(* C35  Day numbers stay inside the month: for every ScheduledItem of      *)
(* every MonthlyPlan 1 <= start day <= end day <= 30, whatever the number  *)
(* of movies and series scheduled in the month.                            *)
(***************************************************************************)
C35_DaysInsideMonth ==
  \A k \in Months : \A n \in 1..Len(rotationSchedule[k].itemsToWatch) :
    LET it == rotationSchedule[k].itemsToWatch[n]
    IN /\ 1 <= it.day
       /\ it.day <= it.endDay
       /\ it.endDay <= DAYS_IN_MONTH

(***************************************************************************)
(* Calls made in January, in July and in December, with series that last   *)
(* up to the 24 months of the horizon.                                     *)
(***************************************************************************)
CalendarMonths == {0, 6, 11}

InitCalendar == InitWith(SeriesEntries, {800}, CalendarMonths)

SpecCalendar == InitCalendar /\ [][Next]_vars

(***************************************************************************)
(* C36  Consecutive calendar months: the k-th MonthlyPlan (k = 0, 1, ...)  *)
(* carries the calendar month k months after the month of the call; each   *)
(* plan's (year, monthIndex) is the immediate successor of the previous    *)
(* plan's, December being followed by January of the next year, and no     *)
(* month is skipped or repeated.                                           *)
(***************************************************************************)
C36_ConsecutiveMonths ==
  \A k \in Months :
    LET plan == rotationSchedule[k]
    IN /\ plan.monthIndex \in 0..11
       /\ plan.year * 12 + plan.monthIndex = currentMonth + (k - 1)
       /\ k > 1 =>
            LET prev == rotationSchedule[k - 1]
            IN IF prev.monthIndex = 11
               THEN plan.monthIndex = 0 /\ plan.year = prev.year + 1
               ELSE plan.monthIndex = prev.monthIndex + 1 /\ plan.year = prev.year

\* C36 witness: a run that starts in December and passes two year ends
C36_Witness ==
  /\ currentMonth = 11
  /\ \E k \in Months :
       /\ k > 2
       /\ rotationSchedule[k].monthIndex = 0 /\ rotationSchedule[k].year = 2
       /\ rotationSchedule[k - 1].monthIndex = 11 /\ rotationSchedule[k - 1].year = 1

\* An OptimizationResult without the calendar month and year of its plans
WithoutCalendar(r) ==
  [r EXCEPT !.rotationSchedule =
     [k \in 1..Len(r.rotationSchedule) |->
        [r.rotationSchedule[k] EXCEPT !.monthIndex = 0, !.year = 0]]]

\* other is what a second call made in month m returns: the same result when
\* m is the month of the first call, and the same but for the calendar otherwise
SecondCallAgrees(m, other) ==
  /\ m = currentMonth => other = result
  /\ WithoutCalendar(other) = WithoutCalendar(result)

C38_AppendOnly ==
  [][/\ watchlist' = watchlist
     /\ \/ rotationSchedule' = rotationSchedule
        \/ /\ Len(rotationSchedule') = Len(rotationSchedule) + 1
           /\ \A k \in 1..Len(rotationSchedule) : rotationSchedule'[k] = rotationSchedule[k]
     /\ pc' = "done" => result'.rotationSchedule = rotationSchedule]_vars

\* C38 witness: the first plan records minutes left for a series that a later
\* month has finished
C38_Witness ==
  /\ Len(rotationSchedule) >= 2
  /\ \E n \in 1..Len(rotationSchedule[1].itemsToWatch) :
       /\ rotationSchedule[1].itemsToWatch[n].remainingMinutes > 0
       /\ contentState[rotationSchedule[1].itemsToWatch[n].id].remainingMinutes = 0

(***************************************************************************)
(* WATCHLIST READINESS CHECK and the page that calls the optimizer.  The   *)
(* lists of a WatchlistReadiness hold watchlist positions.                 *)
(***************************************************************************)
\* A faulty variant of checkWatchlistReadiness: entries flagged as pending are
\* tested for a provider like the others
checkWatchlistReadinessCountingPending(wl) ==
  LET hasProvider(i) == Len(wl[i].providers) > 0 \/ wl[i].userSelectedProvider # ""
      high == SelectSeq(Ids(wl), LAMBDA i : ~hasProvider(i) /\ wl[i].priority = "high")
  IN [isReady |-> Len(high) = 0,
      highPriorityMissingPlatform |-> high,
      otherMissingPlatform |->
        SelectSeq(Ids(wl), LAMBDA i : ~hasProvider(i) /\ wl[i].priority # "high"),
      pendingPlatformSelection |-> SelectSeq(Ids(wl), LAMBDA i : wl[i].pendingPlatformSelection)]

checkWatchlistReadiness(wl) ==
  LET hasProvider(i) == Len(wl[i].providers) > 0 \/ wl[i].userSelectedProvider # ""
      high == SelectSeq(Ids(wl), LAMBDA i :
                ~wl[i].pendingPlatformSelection /\ ~hasProvider(i) /\ wl[i].priority = "high")
  IN [isReady |-> Len(high) = 0,
      highPriorityMissingPlatform |-> high,
      otherMissingPlatform |->
        SelectSeq(Ids(wl), LAMBDA i :
          ~wl[i].pendingPlatformSelection /\ ~hasProvider(i) /\ wl[i].priority # "high"),
      pendingPlatformSelection |-> SelectSeq(Ids(wl), LAMBDA i : wl[i].pendingPlatformSelection)]

\* The budget the page starts with (useState(35)), in cents
InitialBudget == 3500

MaxPageItems == 2

\* Entries the user can put on the page's watchlist
PageEntries ==
  { Item("tv", "high", <<"netflix">>, "", FALSE, 0, 0),
    Item("movie", "high", <<>>, "", FALSE, 0, 0),
    Item("movie", "high", <<>>, "", TRUE, 0, 0),
    Item("tv", "high", <<>>, "hbo", FALSE, 3700, 0),
    Item("tv", "low", <<>>, "", FALSE, 0, 0) }

PageWatchlists == {<<>>} \cup UNION {[1..n -> PageEntries] : n \in 1..MaxPageItems}

\* The page as first rendered: an empty watchlist, no result, nothing running
InitPage ==
  /\ watchlist = <<>>
  /\ budget = InitialBudget
  /\ currentMonth \in StartMonths
  /\ contentState = <<>>
  /\ rotationSchedule = <<>>
  /\ monthOffset = 0
  /\ previousPlatforms = {}
  /\ pc = "page"
  /\ result = NoResult

\* The user edits the watchlist while no optimization is running
setWatchlist ==
  /\ pc \in {"page", "done"}
  /\ watchlist' \in PageWatchlists
  /\ UNCHANGED <<budget, currentMonth, contentState, rotationSchedule, monthOffset,
                 previousPlatforms, pc, result>>

\* The click on the button: nothing happens for an empty or unready watchlist,
\* otherwise optimizeSubscriptions is called with the page's watchlist and budget
handleOptimize ==
  /\ pc \in {"page", "done"}
  /\ ~(Len(watchlist) = 0 \/ ~checkWatchlistReadiness(watchlist).isReady)
  /\ contentState' = initializeContentState(watchlist)
  /\ rotationSchedule' = <<>>
  /\ monthOffset' = 0
  /\ previousPlatforms' = {}
  /\ pc' = "loop"
  /\ UNCHANGED <<watchlist, budget, currentMonth, result>>

NextPage == setWatchlist \/ handleOptimize \/ SimulateMonth \/ Finish

SpecPage == InitPage /\ [][NextPage]_vars

\* Entry i has neither a provider nor a user-selected provider
LacksPlatform(i) ==
  Len(watchlist[i].providers) = 0 /\ watchlist[i].userSelectedProvider = ""

\* The three lists of r are as described for the page's watchlist
ListsAsDescribed(r) ==
  /\ \A i \in ItemIds :
       /\ i \in Range(r.pendingPlatformSelection) <=> watchlist[i].pendingPlatformSelection
       /\ i \in Range(r.highPriorityMissingPlatform) <=>
            (~watchlist[i].pendingPlatformSelection /\ LacksPlatform(i)
               /\ watchlist[i].priority = "high")
       /\ i \in Range(r.otherMissingPlatform) <=>
            (~watchlist[i].pendingPlatformSelection /\ LacksPlatform(i)
               /\ watchlist[i].priority # "high")
       /\ Cardinality({l \in {"high", "other", "pending"} :
            \/ l = "high" /\ i \in Range(r.highPriorityMissingPlatform)
            \/ l = "other" /\ i \in Range(r.otherMissingPlatform)
            \/ l = "pending" /\ i \in Range(r.pendingPlatformSelection)}) <= 1
  /\ Range(r.pendingPlatformSelection) \cup Range(r.highPriorityMissingPlatform)
       \cup Range(r.otherMissingPlatform) \subseteq ItemIds
  /\ r.isReady <=>
       ~\E i \in ItemIds :
          ~watchlist[i].pendingPlatformSelection /\ watchlist[i].priority = "high"
            /\ LacksPlatform(i)

(***************************************************************************)
(* C39  Readiness gate: checkWatchlistReadiness puts every entry in at     *)
(* most one of its three lists (pending entries only in                    *)
(* pendingPlatformSelection; non-pending entries without any provider or   *)
(* user-selected provider in highPriorityMissingPlatform if their priority *)
(* is high, else in otherMissingPlatform), and isReady is true if and only *)
(* if no non-pending high-priority entry lacks a platform; the page starts *)
(* an optimization only for a non-empty watchlist for which isReady is     *)
(* true.                                                                   *)
(***************************************************************************)
C39_ReadinessGate ==
  /\ []ListsAsDescribed(checkWatchlistReadiness(watchlist))
  /\ [][(pc # "loop" /\ pc' = "loop") =>
          /\ watchlist' = watchlist
          /\ Len(watchlist) > 0
          /\ ~\E i \in ItemIds :
                ~watchlist[i].pendingPlatformSelection /\ watchlist[i].priority = "high"
                  /\ LacksPlatform(i)]_vars

\* C39 witness: an optimization has run for a watchlist with a pending
\* high-priority entry without providers, and the user has since put an entry
\* on the list that makes it unready
C39_Witness ==
  /\ pc = "done"
  /\ result # NoResult
  /\ ~checkWatchlistReadiness(watchlist).isReady
  /\ \E n \in 1..Len(result.deferredItems) :
       result.deferredItems[n].reason = "Pending platform selection"
====
